---------------------------- MODULE Spec2Model ----------------------------
(***************************************************************************)
(* Product catalog service (server.js): the products table, the write      *)
(* handlers with their express-validator chains, the query builder of      *)
(* GET /api/products with its count query and page query, the statistics,  *)
(* the CSV export, the categories and the two rate limiters; and the page  *)
(* in the browser (app.js): its search history and its list requests.      *)
(*                                                                         *)
(* Text is a sequence of one-character strings, so that trimming, LIKE     *)
(* matching, case folding, regular expressions and numeric parsing are     *)
(* computed character by character.  A JavaScript value (a query-string    *)
(* parameter, a JSON body field) is a record [k, s, n]: k is its type, s   *)
(* its text (for an array: its String() conversion), n its number.         *)
(* Prices are whole currency units.                                        *)
(*                                                                         *)
(* A handler is the code behind the rate limiters: the specification of    *)
(* the limiters puts them in front of it, the other specifications are of  *)
(* admitted requests.  ioerr is the parameter by which a specification     *)
(* lets a statement of the storage engine fail.                            *)
(***************************************************************************)
EXTENDS Integers, Sequences, FiniteSets, TLC

VARIABLES
    products,   \* the rows of table products (a set of records, id unique)
    now,        \* the store's CURRENT_TIMESTAMP
    list,       \* the GET /api/products request in flight and its response
    resp,       \* the response of the last single-statement request
    stats,      \* the GET /api/statistics request in flight and its response
    csv,        \* the response of the last GET /api/products/export/csv
    posted,     \* history: the bodies of the POSTs whose rows no request has
                \* written since, as pairs <<id, body>>
    limits,     \* the hit counters of the two rate limiters, by client
    categories, \* the response of the last GET /api/categories
    posts,      \* the POST requests in flight, by client
    ui          \* the page in the browser (app.js)

vars == <<products, now, list, resp, stats, csv, posted, limits, categories, posts, ui>>

----------------------------------------------------------------------------
(* Characters and text *)

\* The characters in ascending order of their ASCII code (BINARY collation).
AsciiOrder ==
    <<" ", "\"", "%", ",", "-", "0", "1", "2", "3", "4", "5", "6", "7", "8", "9",
      ";", "A", "B", "C", "D", "E", "S", "X", "_",
      "a", "b", "c", "d", "e", "s", "x">>

UpperLetters == <<"A", "B", "C", "D", "E", "S", "X">>
LowerLetters == <<"a", "b", "c", "d", "e", "s", "x">>
Digits == <<"0", "1", "2", "3", "4", "5", "6", "7", "8", "9">>

Code(c) == CHOOSE i \in 1..Len(AsciiOrder) : AsciiOrder[i] = c

IsDigit(c) == \E i \in 1..10 : Digits[i] = c

DigitValue(c) == (CHOOSE i \in 1..10 : Digits[i] = c) - 1

ToUpperChar(c) ==
    IF \E i \in 1..Len(LowerLetters) : LowerLetters[i] = c
    THEN UpperLetters[CHOOSE i \in 1..Len(LowerLetters) : LowerLetters[i] = c]
    ELSE c

ToLowerChar(c) ==
    IF \E i \in 1..Len(UpperLetters) : UpperLetters[i] = c
    THEN LowerLetters[CHOOSE i \in 1..Len(UpperLetters) : UpperLetters[i] = c]
    ELSE c

\* String.prototype.toUpperCase
ToUpperCase(s) == [i \in 1..Len(s) |-> ToUpperChar(s[i])]

RECURSIVE TrimLeft(_)
TrimLeft(s) == IF s # <<>> /\ Head(s) = " " THEN TrimLeft(Tail(s)) ELSE s

RECURSIVE TrimRight(_)
TrimRight(s) ==
    IF s # <<>> /\ s[Len(s)] = " " THEN TrimRight(SubSeq(s, 1, Len(s) - 1)) ELSE s

\* validator.js trim(): whitespace removed at both ends
Trim(s) == TrimRight(TrimLeft(s))

\* BINARY collation: s sorts strictly before t
RECURSIVE TextLess(_, _)
TextLess(s, t) ==
    IF t = <<>> THEN FALSE
    ELSE IF s = <<>> THEN TRUE
    ELSE IF Head(s) = Head(t) THEN TextLess(Tail(s), Tail(t))
    ELSE Code(Head(s)) < Code(Head(t))

\* The SQL NULL of a TEXT column (no text has a two-character element).
Null == <<"\\N">>

----------------------------------------------------------------------------
(* JavaScript values *)

Undef == [k |-> "undef", s |-> <<>>, n |-> 0]
Str(t) == [k |-> "str", s |-> t, n |-> 0]
Num(i) == [k |-> "num", s |-> <<>>, n |-> i]
NaN == [k |-> "nan", s |-> <<>>, n |-> 0]
Arr(t) == [k |-> "arr", s |-> t, n |-> 0]

\* ToBoolean
Truthy(v) ==
    CASE v.k = "undef" -> FALSE
      [] v.k = "nan" -> FALSE
      [] v.k = "str" -> v.s # <<>>
      [] v.k = "num" -> v.n # 0
      [] OTHER -> TRUE

RECURSIVE LeadingDigits(_)
LeadingDigits(s) ==
    IF s # <<>> /\ IsDigit(Head(s)) THEN <<Head(s)>> \o LeadingDigits(Tail(s))
    ELSE <<>>

RECURSIVE DigitsValue(_)
DigitsValue(ds) ==
    IF ds = <<>> THEN 0
    ELSE 10 * DigitsValue(SubSeq(ds, 1, Len(ds) - 1)) + DigitValue(ds[Len(ds)])

\* The number a numeral prefix of text denotes: leading white space, an
\* optional sign, decimal digits; NaN when no digit follows.
ParseNumeral(s) ==
    LET t == TrimLeft(s)
        neg == t # <<>> /\ Head(t) = "-"
        ds == LeadingDigits(IF neg THEN Tail(t) ELSE t)
    IN  IF ds = <<>> THEN NaN
        ELSE Num(IF neg THEN 0 - DigitsValue(ds) ELSE DigitsValue(ds))

\* parseInt(v): v is converted to a string first
ParseInt(v) ==
    CASE v.k = "num" -> v
      [] v.k \in {"str", "arr"} -> ParseNumeral(v.s)
      [] OTHER -> NaN

\* parseFloat(v), on the integer-valued numerals of the model
ParseFloat(v) ==
    CASE v.k = "num" -> v
      [] v.k \in {"str", "arr"} -> ParseNumeral(v.s)
      [] OTHER -> NaN

\* `${v}` of a template literal
TemplateText(v) == IF v.k \in {"str", "arr"} THEN v.s ELSE <<>>

----------------------------------------------------------------------------
(* The storage engine: SQLite's evaluation of the statements of server.js *)

Min(a, b) == IF a < b THEN a ELSE b

\* x LIKE pat: % matches any run of characters, _ any one character, letters
\* match without regard to case; NULL LIKE pat is not true.
RECURSIVE LikeText(_, _)
LikeText(pat, s) ==
    IF pat = <<>> THEN s = <<>>
    ELSE IF Head(pat) = "%"
         THEN LikeText(Tail(pat), s) \/ (s # <<>> /\ LikeText(pat, Tail(s)))
    ELSE /\ s # <<>>
         /\ \/ Head(pat) = "_"
            \/ ToLowerChar(Head(pat)) = ToLowerChar(Head(s))
         /\ LikeText(Tail(pat), Tail(s))

Like(x, pat) == x # Null /\ pat.k = "str" /\ LikeText(pat.s, x)

\* A piece of statement text: a literal of the source, or interpolated text.
Sql(lit) == [sql |-> lit, text |-> <<>>]
Interp(t) == [sql |-> "", text |-> t]

CategoryClause == Sql(" AND category LIKE ?")
SearchClause == Sql(" AND (name LIKE ? OR description LIKE ? OR code LIKE ?)")
MinPriceClause == Sql(" AND unit_price >= ?")
MaxPriceClause == Sql(" AND unit_price <= ?")
OrderByPiece == Sql(" ORDER BY ")
LimitOffsetPiece == Sql(" LIMIT ? OFFSET ?")
SelectBase == Sql("SELECT * FROM products WHERE 1=1")
CountBase == Sql("SELECT COUNT(*) as total FROM products WHERE 1=1")

KnownClauses == {CategoryClause, SearchClause, MinPriceClause, MaxPriceClause}

\* The number of ? placeholders of a WHERE clause.
Placeholders(clause) == IF clause = SearchClause THEN 3 ELSE 1

RECURSIVE PlaceholderCount(_)
PlaceholderCount(clauses) ==
    IF clauses = <<>> THEN 0
    ELSE Placeholders(Head(clauses)) + PlaceholderCount(Tail(clauses))

\* A bound JavaScript number; NaN is bound as NULL, and a comparison with
\* NULL is not true.
ClauseHolds(row, clause, ps) ==
    CASE clause = CategoryClause -> Like(row.category, ps[1])
      [] clause = SearchClause ->
            \/ Like(row.name, ps[1])
            \/ Like(row.description, ps[2])
            \/ Like(row.code, ps[3])
      [] clause = MinPriceClause -> ps[1].k = "num" /\ row.unit_price >= ps[1].n
      [] clause = MaxPriceClause -> ps[1].k = "num" /\ row.unit_price <= ps[1].n
      [] OTHER -> FALSE

\* WHERE 1=1 AND clause AND ..., the placeholders bound to ps in order.
RECURSIVE WhereHolds(_, _, _)
WhereHolds(row, clauses, ps) ==
    IF clauses = <<>> THEN TRUE
    ELSE /\ ClauseHolds(row, Head(clauses), ps)
         /\ WhereHolds(row, Tail(clauses),
                       SubSeq(ps, Placeholders(Head(clauses)) + 1, Len(ps)))

S_id == <<"i", "d">>
S_name == <<"n", "a", "m", "e">>
S_category == <<"c", "a", "t", "e", "g", "o", "r", "y">>
S_quantity == <<"q", "u", "a", "n", "t", "i", "t", "y">>
S_unit_price == <<"u", "n", "i", "t", "_", "p", "r", "i", "c", "e">>
S_code == <<"c", "o", "d", "e">>
S_description == <<"d", "e", "s", "c", "r", "i", "p", "t", "i", "o", "n">>
S_ASC == <<"A", "S", "C">>
S_DESC == <<"D", "E", "S", "C">>

\* The columns of table products that ORDER BY can name.
TableColumns ==
    {S_id, S_name, S_category, S_quantity, S_unit_price, S_code, S_description}

\* Row a sorts strictly before row b under ORDER BY col ASC.
KeyLess(a, b, col) ==
    CASE col = S_id -> TextLess(a.id, b.id)
      [] col = S_name -> TextLess(a.name, b.name)
      [] col = S_category -> TextLess(a.category, b.category)
      [] col = S_code -> TextLess(a.code, b.code)
      [] col = S_quantity -> a.quantity < b.quantity
      [] col = S_unit_price -> a.unit_price < b.unit_price
      [] col = S_description ->
            /\ b.description # Null
            /\ (a.description = Null \/ TextLess(a.description, b.description))
      [] OTHER -> FALSE

Before(a, b, col, dir) == IF dir = S_DESC THEN KeyLess(b, a, col) ELSE KeyLess(a, b, col)

\* Every order in which ORDER BY col dir may return the rows S: rows with
\* equal keys come in any order.
RECURSIVE SortedSeqs(_, _, _)
SortedSeqs(S, col, dir) ==
    IF S = {} THEN {<<>>}
    ELSE UNION { { <<r>> \o t : t \in SortedSeqs(S \ {r}, col, dir) } :
                 r \in { x \in S : \A o \in S : ~Before(o, x, col, dir) } }

\* LIMIT lim OFFSET off: a negative LIMIT is no limit, a negative OFFSET is 0.
LimitOffset(rows, lim, off) ==
    LET o == IF off < 0 THEN 0 ELSE off
        last == IF lim < 0 THEN Len(rows) ELSE Min(Len(rows), o + lim)
    IN  SubSeq(rows, o + 1, last)

\* The statement is well formed: known clauses, as many bound values as
\* placeholders, an ORDER BY column of the table and a direction.
CountWellFormed(text, ps) ==
    /\ Len(text) >= 1 /\ text[1] = CountBase
    /\ \A i \in 2..Len(text) : text[i] \in KnownClauses
    /\ PlaceholderCount(Tail(text)) = Len(ps)

SelectWellFormed(text, ps) ==
    LET n == Len(text)
    IN  /\ n >= 6 /\ text[1] = SelectBase
        /\ \A i \in 2..(n - 5) : text[i] \in KnownClauses
        /\ text[n - 4] = OrderByPiece
        /\ text[n - 3].sql = "" /\ text[n - 3].text \in TableColumns
        /\ text[n - 2] = Sql(" ")
        /\ text[n - 1].sql = "" /\ text[n - 1].text \in {S_ASC, S_DESC}
        /\ text[n] = LimitOffsetPiece
        /\ PlaceholderCount(SubSeq(text, 2, n - 5)) + 2 = Len(ps)
        /\ ps[Len(ps)].k = "num" /\ ps[Len(ps) - 1].k = "num"

\* db.get(countQuery, params): the value of COUNT(*)
ExecCount(text, ps, table) ==
    Cardinality({r \in table : WhereHolds(r, Tail(text), ps)})

\* db.all(query, params): every sequence of rows the statement may return
ExecSelect(text, ps, table) ==
    LET n == Len(text)
        matching == {r \in table : WhereHolds(r, SubSeq(text, 2, n - 5), ps)}
    IN  { LimitOffset(sorted, ps[Len(ps) - 1].n, ps[Len(ps)].n) :
          sorted \in SortedSeqs(matching, text[n - 3].text, text[n - 1].text) }

----------------------------------------------------------------------------
(* GET /api/products: the query builder *)

DefaultPage == 1
DefaultLimit == 20

\* A destructuring default: it replaces undefined only.
Default(v, d) == IF v.k = "undef" THEN d ELSE v

\* const pageNum = parseInt(page) || 1
PageNum(q) ==
    LET p == ParseInt(Default(q.page, Num(DefaultPage)))
    IN  IF Truthy(p) THEN p.n ELSE DefaultPage

\* Mutant: another default page size.
LimitNumTen(q) ==
    LET l == ParseInt(Default(q.limit, Num(10)))
    IN  IF Truthy(l) THEN l.n ELSE 10

\* const limitNum = parseInt(limit) || 20
LimitNum(q) ==
    LET l == ParseInt(Default(q.limit, Num(DefaultLimit)))
    IN  IF Truthy(l) THEN l.n ELSE DefaultLimit

\* const offset = (pageNum - 1) * limitNum
Offset(pageNum, limitNum) == (pageNum - 1) * limitNum

\* Mutant: the category term is written into the statement text.
WhereClausesInterpolated(q) ==
    (IF Truthy(q.category)
     THEN <<Sql(" AND category LIKE "), Interp(TemplateText(q.category))>> ELSE <<>>)
    \o (IF Truthy(q.search) THEN <<SearchClause>> ELSE <<>>)
    \o (IF Truthy(q.minPrice) THEN <<MinPriceClause>> ELSE <<>>)
    \o (IF Truthy(q.maxPrice) THEN <<MaxPriceClause>> ELSE <<>>)

\* The clauses appended to 'WHERE 1=1', one per truthy filter.
WhereClauses(q) ==
    (IF Truthy(q.category) THEN <<CategoryClause>> ELSE <<>>)
    \o (IF Truthy(q.search) THEN <<SearchClause>> ELSE <<>>)
    \o (IF Truthy(q.minPrice) THEN <<MinPriceClause>> ELSE <<>>)
    \o (IF Truthy(q.maxPrice) THEN <<MaxPriceClause>> ELSE <<>>)

\* `%${term}%`
LikePattern(term) == Str(<<"%">> \o TemplateText(term) \o <<"%">>)

\* The values pushed on params, in the order of the clauses.
FilterParams(q) ==
    (IF Truthy(q.category) THEN <<LikePattern(q.category)>> ELSE <<>>)
    \o (IF Truthy(q.search)
        THEN <<LikePattern(q.search), LikePattern(q.search), LikePattern(q.search)>>
        ELSE <<>>)
    \o (IF Truthy(q.minPrice) THEN <<ParseFloat(q.minPrice)>> ELSE <<>>)
    \o (IF Truthy(q.maxPrice) THEN <<ParseFloat(q.maxPrice)>> ELSE <<>>)

ValidSortColumns == {S_id, S_name, S_category, S_quantity, S_unit_price, S_code}

\* Mutant: the sort column is taken from the request without the allow-list.
SortColumnUnchecked(q) == TemplateText(Default(q.sortBy, Str(S_id)))

\* validSortColumns.includes(sortBy) ? sortBy : 'id'
SortColumn(q) ==
    LET sortBy == Default(q.sortBy, Str(S_id))
    IN  IF sortBy.k = "str" /\ sortBy.s \in ValidSortColumns THEN sortBy.s ELSE S_id

\* order.toUpperCase is a function of strings only: on any other value the
\* call throws a TypeError.
OrderThrows(q) == Default(q.order, Str(S_ASC)).k # "str"

\* order.toUpperCase() === 'DESC' ? 'DESC' : 'ASC'
SortOrder(q) ==
    IF ToUpperCase(Default(q.order, Str(S_ASC)).s) = S_DESC THEN S_DESC ELSE S_ASC

\* Mutant: the search clause is appended to query only.
CountQueryNoSearch(q) ==
    <<CountBase>> \o WhereClauses([q EXCEPT !.search = Undef])

CountQuery(q) == <<CountBase>> \o WhereClauses(q)

PageQuery(q) ==
    <<SelectBase>> \o WhereClauses(q)
    \o <<OrderByPiece, Interp(SortColumn(q)), Sql(" "), Interp(SortOrder(q)),
         LimitOffsetPiece>>

\* Math.ceil(total / limitNum), limitNum # 0
TotalPages(total, limitNum) ==
    IF limitNum > 0 THEN (total + limitNum - 1) \div limitNum
    ELSE 0 - (total \div (0 - limitNum))

NoQuery ==
    [category |-> Undef, search |-> Undef, minPrice |-> Undef, maxPrice |-> Undef,
     sortBy |-> Undef, order |-> Undef, page |-> Undef, limit |-> Undef]

\* The body of a response: the type of its JSON value and, of an object, the
\* keys; the values under the keys are the fields of the request record.
NoJson == [json |-> "none", keys |-> {}]
JsonObject(keys) == [json |-> "object", keys |-> keys]

\* countParams, pageParams: the parameter arrays the two statements were
\* executed with; db: the statements issued; faults: those that failed;
\* sent: the responses sent.
ListIdle ==
    [pc |-> "idle", q |-> NoQuery, query |-> <<>>, countQuery |-> <<>>,
     params |-> <<>>, pageNum |-> 0, limitNum |-> 0, offset |-> 0,
     total |-> 0, totalPages |-> 0, db |-> 0,
     countParams |-> <<>>, pageParams |-> <<>>, faults |-> 0, sent |-> 0,
     status |-> 0, products |-> <<>>, error |-> "", body |-> NoJson]

\* The handler up to db.get(countQuery, params, ...).  A TypeError thrown in
\* the handler is answered 500 by Express, before any statement is issued.
ListStart(q) ==
    /\ list.pc = "idle"
    /\ list' = IF OrderThrows(q)
               THEN [ListIdle EXCEPT !.pc = "done", !.q = q, !.status = 500,
                                     !.error = "TypeError", !.sent = 1]
               ELSE [ListIdle EXCEPT
                        !.pc = "count", !.q = q,
                        !.query = PageQuery(q), !.countQuery = CountQuery(q),
                        !.params = FilterParams(q),
                        !.pageNum = PageNum(q), !.limitNum = LimitNum(q),
                        !.offset = Offset(PageNum(q), LimitNum(q))]
    /\ UNCHANGED <<products, now, resp, stats, csv, posted, limits, categories, posts, ui>>

\* Mutant: the callback of the count statement without its return, the
\* error is answered and the page statement is issued all the same.
ListCountNoReturn(ioerr) ==
    /\ list.pc = "count"
    /\ list' = IF ioerr \/ ~CountWellFormed(list.countQuery, list.params)
               THEN [list EXCEPT !.pc = "page", !.db = 1, !.faults = 1,
                                 !.countParams = list.params,
                                 !.status = 500, !.sent = @ + 1,
                                 !.error = "Failed to fetch products",
                                 !.body = JsonObject({"error"})]
               ELSE LET total == ExecCount(list.countQuery, list.params, products)
                    IN  [list EXCEPT !.pc = "page", !.db = 1, !.total = total,
                            !.countParams = list.params,
                            !.totalPages = TotalPages(total, list.limitNum)]
    /\ UNCHANGED <<products, now, resp, stats, csv, posted, limits, categories, posts, ui>>

\* The count statement and its callback, up to db.all(query, [...]).
ListCount(ioerr) ==
    /\ list.pc = "count"
    /\ list' = IF ioerr \/ ~CountWellFormed(list.countQuery, list.params)
               THEN [list EXCEPT !.pc = "done", !.db = 1, !.faults = 1,
                                 !.countParams = list.params,
                                 !.status = 500, !.sent = @ + 1,
                                 !.error = "Failed to fetch products",
                                 !.body = JsonObject({"error"})]
               ELSE LET total == ExecCount(list.countQuery, list.params, products)
                    IN  [list EXCEPT !.pc = "page", !.db = 1, !.total = total,
                            !.countParams = list.params,
                            !.totalPages = TotalPages(total, list.limitNum)]
    /\ UNCHANGED <<products, now, resp, stats, csv, posted, limits, categories, posts, ui>>

\* Mutant: the callback of the page statement takes total from the table
\* it has just read.
ListPageRecount(ioerr) ==
    LET ps == list.params \o <<Num(list.limitNum), Num(list.offset)>>
        total == ExecCount(list.countQuery, list.params, products)
    IN  /\ list.pc = "page"
        /\ \E rows \in ExecSelect(list.query, ps, products) :
              list' = [list EXCEPT !.pc = "done", !.db = @ + 1,
                                   !.pageParams = ps,
                                   !.status = 200, !.sent = @ + 1,
                                   !.total = total,
                                   !.totalPages = TotalPages(total, list.limitNum),
                                   !.products = rows,
                                   !.body = JsonObject({"products", "pagination"})]
        /\ UNCHANGED <<products, now, resp, stats, csv, posted, limits, categories, posts, ui>>

\* The page statement and its callback: the response.
ListPage(ioerr) ==
    LET ps == list.params \o <<Num(list.limitNum), Num(list.offset)>>
    IN  /\ list.pc = "page"
        /\ IF ioerr \/ ~SelectWellFormed(list.query, ps)
           THEN list' = [list EXCEPT !.pc = "done", !.db = @ + 1,
                                     !.faults = @ + 1, !.pageParams = ps,
                                     !.status = 500, !.sent = @ + 1,
                                     !.error = "Failed to fetch products",
                                     !.body = JsonObject({"error"})]
           ELSE \E rows \in ExecSelect(list.query, ps, products) :
                    list' = [list EXCEPT !.pc = "done", !.db = @ + 1,
                                         !.pageParams = ps,
                                         !.status = 200, !.sent = @ + 1,
                                         !.products = rows,
                                         !.body = JsonObject({"products",
                                                              "pagination"})]
        /\ UNCHANGED <<products, now, resp, stats, csv, posted, limits, categories, posts, ui>>

\* The response is on the wire: the request and its closures are released.
ListEnd ==
    /\ list.pc = "done"
    /\ list' = ListIdle
    /\ UNCHANGED <<products, now, resp, stats, csv, posted, limits, categories, posts, ui>>

----------------------------------------------------------------------------
(* Validation middleware (express-validator) *)

MaxCategoryLen == 100
MaxNameLen == 200
MaxDescriptionLen == 1000
MaxCodeLen == 50

RECURSIVE NumeralText(_)
NumeralText(i) ==
    IF i < 0 THEN <<"-">> \o NumeralText(0 - i)
    ELSE IF i < 10 THEN <<Digits[i + 1]>>
    ELSE NumeralText(i \div 10) \o <<Digits[(i % 10) + 1]>>

\* The string a validator or sanitizer sees: toString(value)
ToText(v) ==
    CASE v.k = "num" -> NumeralText(v.n)
      [] v.k \in {"str", "arr"} -> v.s
      [] OTHER -> <<>>

\* /^\d{3}-\d{2}$/
MatchesIdFormat(t) ==
    LET head == LeadingDigits(t)
        rest == SubSeq(t, 5, Len(t))
    IN  /\ Len(head) = 3
        /\ Len(t) > 3 /\ t[4] = "-"
        /\ Len(rest) = 2 /\ LeadingDigits(rest) = rest

\* Mutant: isInt(), isFloat() without the option min.
IsNumeralAnySign(t) ==
    LET u == IF t # <<>> /\ Head(t) = "-" THEN Tail(t) ELSE t
    IN  u # <<>> /\ LeadingDigits(u) = u

\* isInt({min: 0}), isFloat({min: 0}) on the integer-valued numerals of the
\* model: an optional sign, digits and nothing else, the value at least 0.
IsNumeralAtLeast0(t) ==
    LET u == IF t # <<>> /\ Head(t) = "-" THEN Tail(t) ELSE t
    IN  /\ u # <<>> /\ LeadingDigits(u) = u
        /\ ParseNumeral(t).n >= 0

\* Mutant: the sanitizer removes leading white space only.
TrimmedLeftOnly(v) == Str(TrimLeft(ToText(v)))

\* body(f).trim(): the field is replaced by its trimmed text
Trimmed(v) == Str(Trim(ToText(v)))

\* The request body after the sanitizers of validateProduct have run;
\* .optional() stops the chain of an undefined description.
Sanitized(b) ==
    [b EXCEPT !.id = Trimmed(b.id), !.category = Trimmed(b.category),
              !.name = Trimmed(b.name), !.code = Trimmed(b.code),
              !.description = IF b.description.k = "undef" THEN Undef
                              ELSE Trimmed(b.description)]

\* Mutant: validateProduct without the rule of body('id').
ProductErrorsWithoutId(b) ==
    LET sb == Sanitized(b)
    IN  {f \in {"category", "name", "description", "quantity", "unit_price", "code"} :
           CASE f = "category" -> Len(sb.category.s) \notin 1..MaxCategoryLen
             [] f = "name" -> Len(sb.name.s) \notin 1..MaxNameLen
             [] f = "description" ->
                   sb.description.k # "undef" /\ Len(sb.description.s) > MaxDescriptionLen
             [] f = "quantity" -> ~IsNumeralAtLeast0(ToText(b.quantity))
             [] f = "unit_price" -> ~IsNumeralAtLeast0(ToText(b.unit_price))
             [] f = "code" -> Len(sb.code.s) \notin 1..MaxCodeLen}

\* validateProduct: the fields of the body with a validation error
ProductErrors(b) ==
    LET sb == Sanitized(b)
    IN  {f \in {"id", "category", "name", "description", "quantity", "unit_price", "code"} :
           CASE f = "id" -> ~MatchesIdFormat(sb.id.s)
             [] f = "category" -> Len(sb.category.s) \notin 1..MaxCategoryLen
             [] f = "name" -> Len(sb.name.s) \notin 1..MaxNameLen
             [] f = "description" ->
                   sb.description.k # "undef" /\ Len(sb.description.s) > MaxDescriptionLen
             [] f = "quantity" -> ~IsNumeralAtLeast0(ToText(b.quantity))
             [] f = "unit_price" -> ~IsNumeralAtLeast0(ToText(b.unit_price))
             [] f = "code" -> Len(sb.code.s) \notin 1..MaxCodeLen}

\* validateId: param('id') is matched as it stands in the path
IdErrors(pathId) == IF MatchesIdFormat(ToText(pathId)) THEN {} ELSE {"id"}

\* handleValidationErrors answers 400 when the chains reported an error
\* and calls the handler otherwise.
Rejected(errors) == errors # {}

----------------------------------------------------------------------------
(* The single-statement handlers *)

NoBody ==
    [id |-> Undef, category |-> Undef, name |-> Undef, description |-> Undef,
     quantity |-> Undef, unit_price |-> Undef, code |-> Undef]

\* A response with the request it answers; db counts the statements the
\* request issued and before is the table the request found.
Response(op, pathId, body, status, error, id, rows, db, before) ==
    [op |-> op, pathId |-> pathId, body |-> body, status |-> status,
     error |-> error, id |-> id, rows |-> rows, db |-> db, before |-> before]

NoResp == Response("none", Undef, NoBody, 0, "", <<>>, {}, 0, {})

\* The value SQLite stores for a bound text or number in a numeric column.
StoredNumber(v) == ParseFloat(v).n

\* The value bound for description: undefined binds nothing, the column
\* is NULL.
StoredText(v) == IF v.k = "undef" THEN Null ELSE ToText(v)

\* if (!id || !category || !name || !description || quantity === undefined
\*     || !unit_price || !code)
MissingRequired(b) ==
    \/ ~Truthy(b.id) \/ ~Truthy(b.category) \/ ~Truthy(b.name)
    \/ ~Truthy(b.description) \/ b.quantity.k = "undef"
    \/ ~Truthy(b.unit_price) \/ ~Truthy(b.code)

\* POST /api/products
Post(b, ioerr) ==
    LET sb == Sanitized(b)
        row == [id |-> sb.id.s, category |-> sb.category.s, name |-> sb.name.s,
                description |-> StoredText(sb.description),
                quantity |-> StoredNumber(sb.quantity),
                unit_price |-> ParseFloat(sb.unit_price).n, code |-> sb.code.s,
                created_at |-> now, updated_at |-> now]
        R(status, error, id, db) ==
            Response("post", Undef, b, status, error, id, {}, db, products)
    IN  /\ IF Rejected(ProductErrors(b))
           THEN /\ resp' = R(400, "errors", <<>>, 0)
                /\ UNCHANGED <<products, posted>>
           ELSE IF MissingRequired(sb)
           THEN /\ resp' = R(400, "Missing required fields", <<>>, 0)
                /\ UNCHANGED <<products, posted>>
           ELSE IF ioerr \/ \E r \in products : r.id = row.id
           THEN /\ resp' = R(500, "Failed to create product", <<>>, 1)
                /\ UNCHANGED <<products, posted>>
           ELSE /\ resp' = R(201, "", row.id, 1)
                /\ products' = products \cup {row}
                /\ posted' = posted \cup {<<row.id, b>>}
        /\ UNCHANGED <<now, list, stats, csv, categories, posts, ui>>

\* Mutant: the UPDATE statement also sets updated_at = CURRENT_TIMESTAMP.
PutTouching(pathId, b, ioerr) ==
    LET sb == Sanitized(b)
        id == ToText(pathId)
        R(status, error, rid, db) ==
            Response("put", pathId, b, status, error, rid, {}, db, products)
    IN  /\ IF Rejected(IdErrors(pathId) \cup ProductErrors(b))
           THEN /\ resp' = R(400, "errors", <<>>, 0)
                /\ UNCHANGED <<products, posted>>
           ELSE IF ioerr
           THEN /\ resp' = R(500, "Failed to update product", <<>>, 1)
                /\ UNCHANGED <<products, posted>>
           ELSE IF ~\E r \in products : r.id = id
           THEN /\ resp' = R(404, "Product not found", <<>>, 1)
                /\ UNCHANGED <<products, posted>>
           ELSE /\ resp' = R(200, "", id, 1)
                /\ products' =
                      { IF r.id = id
                        THEN [r EXCEPT !.category = sb.category.s, !.name = sb.name.s,
                                       !.description = StoredText(sb.description),
                                       !.quantity = StoredNumber(sb.quantity),
                                       !.unit_price = ParseFloat(sb.unit_price).n,
                                       !.code = sb.code.s, !.updated_at = now]
                        ELSE r : r \in products }
                /\ posted' = {p \in posted : p[1] # id}
        /\ UNCHANGED <<now, list, stats, csv, categories, posts, ui>>

\* Mutant: the UPDATE statement is bound to the id of the body.
PutByBodyId(pathId, b, ioerr) ==
    LET sb == Sanitized(b)
        id == ToText(sb.id)
        R(status, error, rid, db) ==
            Response("put", pathId, b, status, error, rid, {}, db, products)
    IN  /\ IF Rejected(IdErrors(pathId) \cup ProductErrors(b))
           THEN /\ resp' = R(400, "errors", <<>>, 0)
                /\ UNCHANGED <<products, posted>>
           ELSE IF ioerr
           THEN /\ resp' = R(500, "Failed to update product", <<>>, 1)
                /\ UNCHANGED <<products, posted>>
           ELSE IF ~\E r \in products : r.id = id
           THEN /\ resp' = R(404, "Product not found", <<>>, 1)
                /\ UNCHANGED <<products, posted>>
           ELSE /\ resp' = R(200, "", id, 1)
                /\ products' =
                      { IF r.id = id
                        THEN [r EXCEPT !.category = sb.category.s, !.name = sb.name.s,
                                       !.description = StoredText(sb.description),
                                       !.quantity = StoredNumber(sb.quantity),
                                       !.unit_price = ParseFloat(sb.unit_price).n,
                                       !.code = sb.code.s]
                        ELSE r : r \in products }
                /\ posted' = {p \in posted : p[1] # id}
        /\ UNCHANGED <<now, list, stats, csv, categories, posts, ui>>

\* PUT /api/products/:id
Put(pathId, b, ioerr) ==
    LET sb == Sanitized(b)
        id == ToText(pathId)
        R(status, error, rid, db) ==
            Response("put", pathId, b, status, error, rid, {}, db, products)
    IN  /\ IF Rejected(IdErrors(pathId) \cup ProductErrors(b))
           THEN /\ resp' = R(400, "errors", <<>>, 0)
                /\ UNCHANGED <<products, posted>>
           ELSE IF ioerr
           THEN /\ resp' = R(500, "Failed to update product", <<>>, 1)
                /\ UNCHANGED <<products, posted>>
           ELSE IF ~\E r \in products : r.id = id
           THEN /\ resp' = R(404, "Product not found", <<>>, 1)
                /\ UNCHANGED <<products, posted>>
           ELSE /\ resp' = R(200, "", id, 1)
                /\ products' =
                      { IF r.id = id
                        THEN [r EXCEPT !.category = sb.category.s, !.name = sb.name.s,
                                       !.description = StoredText(sb.description),
                                       !.quantity = StoredNumber(sb.quantity),
                                       !.unit_price = ParseFloat(sb.unit_price).n,
                                       !.code = sb.code.s]
                        ELSE r : r \in products }
                /\ posted' = {p \in posted : p[1] # id}
        /\ UNCHANGED <<now, list, stats, csv, categories, posts, ui>>

\* Mutant: the callback does not look at this.changes.
DeleteUnchecked(pathId, ioerr) ==
    LET id == ToText(pathId)
        R(status, error, db) ==
            Response("delete", pathId, NoBody, status, error, <<>>, {}, db, products)
    IN  /\ IF Rejected(IdErrors(pathId))
           THEN /\ resp' = R(400, "errors", 0)
                /\ UNCHANGED <<products, posted>>
           ELSE IF ioerr
           THEN /\ resp' = R(500, "Failed to delete product", 1)
                /\ UNCHANGED <<products, posted>>
           ELSE /\ resp' = R(200, "", 1)
                /\ products' = {r \in products : r.id # id}
                /\ posted' = {p \in posted : p[1] # id}
        /\ UNCHANGED <<now, list, stats, csv, categories, posts, ui>>

\* DELETE /api/products/:id
Delete(pathId, ioerr) ==
    LET id == ToText(pathId)
        R(status, error, db) ==
            Response("delete", pathId, NoBody, status, error, <<>>, {}, db, products)
    IN  /\ IF Rejected(IdErrors(pathId))
           THEN /\ resp' = R(400, "errors", 0)
                /\ UNCHANGED <<products, posted>>
           ELSE IF ioerr
           THEN /\ resp' = R(500, "Failed to delete product", 1)
                /\ UNCHANGED <<products, posted>>
           ELSE IF ~\E r \in products : r.id = id
           THEN /\ resp' = R(404, "Product not found", 1)
                /\ UNCHANGED <<products, posted>>
           ELSE /\ resp' = R(200, "", 1)
                /\ products' = {r \in products : r.id # id}
                /\ posted' = {p \in posted : p[1] # id}
        /\ UNCHANGED <<now, list, stats, csv, categories, posts, ui>>

\* GET /api/products/:id
GetById(pathId, ioerr) ==
    LET id == ToText(pathId)
        found == {r \in products : r.id = id}
        R(status, error, rows, db) ==
            Response("get", pathId, NoBody, status, error, <<>>, rows, db, products)
    IN  /\ resp' = IF Rejected(IdErrors(pathId)) THEN R(400, "errors", {}, 0)
                   ELSE IF ioerr THEN R(500, "Failed to fetch product", {}, 1)
                   ELSE IF found = {} THEN R(404, "Product not found", {}, 1)
                   ELSE R(200, "", found, 1)
        /\ UNCHANGED <<products, now, list, stats, csv, posted, categories, posts, ui>>

\* The response is on the wire: the request is over.
RequestEnd ==
    /\ resp # NoResp
    /\ resp' = NoResp
    /\ UNCHANGED <<products, now, list, stats, csv, posted, limits, categories, posts, ui>>

\* The client sends the request it has just been answered once more.
Repeat ==
    \/ resp.op = "put" /\ Put(resp.pathId, resp.body, FALSE) /\ UNCHANGED limits
    \/ resp.op = "delete" /\ Delete(resp.pathId, FALSE) /\ UNCHANGED limits

MaxTime == 2

\* CURRENT_TIMESTAMP advances.
Tick ==
    /\ now < MaxTime
    /\ now' = now + 1
    /\ UNCHANGED <<products, list, resp, stats, csv, posted, limits, categories, posts, ui>>

----------------------------------------------------------------------------
(* GET /api/statistics *)

\* The value of an aggregate: NULL, or the number num / den.
SqlNull == [null |-> TRUE, num |-> 0, den |-> 1]
SqlNumber(num, den) == [null |-> FALSE, num |-> num, den |-> den]

ColumnValue(r, col) == IF col = S_quantity THEN r.quantity ELSE r.unit_price

\* SUM(col)
RECURSIVE SumColumn(_, _)
SumColumn(table, col) ==
    IF table = {} THEN 0
    ELSE LET r == CHOOSE x \in table : TRUE
         IN  ColumnValue(r, col) + SumColumn(table \ {r}, col)

\* MIN(col), MAX(col) of a table with a row
MinColumn(table, col) ==
    CHOOSE v \in {ColumnValue(r, col) : r \in table} :
        \A r \in table : v <= ColumnValue(r, col)
MaxColumn(table, col) ==
    CHOOSE v \in {ColumnValue(r, col) : r \in table} :
        \A r \in table : v >= ColumnValue(r, col)

\* The six statements of queries[], in the order of the array.
NumStatements == 6

\* The row db.get(queries[i - 1]) yields: COUNT is 0 and the other
\* aggregates are NULL on a table without rows.
Aggregate(i, table) ==
    CASE i = 1 -> SqlNumber(Cardinality(table), 1)
      [] i = 2 -> IF table = {} THEN SqlNull
                  ELSE SqlNumber(SumColumn(table, S_quantity), 1)
      [] i = 3 -> IF table = {} THEN SqlNull
                  ELSE SqlNumber(SumColumn(table, S_unit_price), Cardinality(table))
      [] i = 4 -> IF table = {} THEN SqlNull
                  ELSE SqlNumber(MinColumn(table, S_unit_price), 1)
      [] i = 5 -> IF table = {} THEN SqlNull
                  ELSE SqlNumber(MaxColumn(table, S_unit_price), 1)
      [] OTHER -> SqlNumber(Cardinality({r.category : r \in table}), 1)

\* Mutant: GROUP BY category COLLATE NOCASE, the categories that differ by
\* case only fall into one group.
GroupByCategoryNoCase(table) ==
    LET Lower(t) == [i \in 1..Len(t) |-> ToLowerChar(t[i])]
    IN  { [category |-> c,
           count |-> Cardinality({r \in table : Lower(r.category) = c}),
           totalQuantity |->
               SumColumn({r \in table : Lower(r.category) = c}, S_quantity)] :
          c \in {Lower(r.category) : r \in table} }

\* SELECT category, COUNT(*) as count, SUM(quantity) as totalQuantity
\* FROM products GROUP BY category: one row per category string, compared
\* character by character (BINARY collation).  The array is modelled by the
\* set of its entries, the statement has no ORDER BY.
GroupByCategory(table) ==
    { [category |-> c,
       count |-> Cardinality({r \in table : r.category = c}),
       totalQuantity |-> SumColumn({r \in table : r.category = c}, S_quantity)] :
      c \in {r.category : r \in table} }

\* v || 0
OrZero(v) == IF v.null \/ v.num = 0 THEN SqlNumber(0, 1) ELSE v

\* parseFloat(v).toFixed(2) of a number num / den >= 0: the hundredth nearest
\* to it and, of two equally near, the larger.
ToFixed2(v) ==
    LET h == (200 * v.num + v.den) \div (2 * v.den)
    IN  NumeralText(h \div 100)
        \o <<".", Digits[((h \div 10) % 10) + 1], Digits[(h % 10) + 1]>>

NoStatistics ==
    [totalProducts |-> 0, totalQuantity |-> 0, averagePrice |-> <<>>,
     minPrice |-> <<>>, maxPrice |-> <<>>, categoryCount |-> 0,
     categoryBreakdown |-> {}, timestamp |-> 0]

StatsIdle ==
    [pc |-> "idle", resolved |-> {}, rejected |-> {}, breakdown |-> "none",
     results |-> [i \in 1..NumStatements |-> SqlNull],
     sent |-> 0, status |-> 0, error |-> "", body |-> NoStatistics]

\* The handler: the six db.get calls are issued.
StatsStart ==
    /\ stats.pc = "idle"
    /\ stats' = [StatsIdle EXCEPT !.pc = "queries"]
    /\ UNCHANGED <<products, now, list, resp, csv, posted, limits, categories, posts, ui>>

\* Statement i executes and its promise settles; the statements of one
\* connection execute one at a time, in an order the handler does not fix.
\* The first rejection rejects Promise.all and reaches .catch, the sixth
\* resolution reaches .then, which issues the GROUP BY statement.  The
\* statements still queued when Promise.all is rejected execute all the
\* same: their promises settle and nothing is subscribed to them.
StatsQuery(i, ioerr) ==
    /\ \/ stats.pc = "queries"
       \/ stats.pc = "done" /\ stats.rejected # {}
    /\ i \notin stats.resolved \cup stats.rejected
    /\ stats' =
          IF ioerr
          THEN IF stats.pc = "queries"
               THEN [stats EXCEPT !.pc = "done", !.rejected = @ \cup {i},
                                  !.status = 500, !.sent = @ + 1,
                                  !.error = "Failed to fetch statistics"]
               ELSE [stats EXCEPT !.rejected = @ \cup {i}]
          ELSE [stats EXCEPT
                   !.results[i] = Aggregate(i, products),
                   !.resolved = @ \cup {i},
                   !.pc = IF stats.pc = "queries"
                             /\ stats.resolved \cup {i} = 1..NumStatements
                          THEN "breakdown" ELSE stats.pc]
    /\ UNCHANGED <<products, now, list, resp, csv, posted, limits, categories, posts, ui>>

\* The GROUP BY statement and its callback: the response.
StatsBreakdown(ioerr) ==
    /\ stats.pc = "breakdown"
    /\ stats' =
          IF ioerr
          THEN [stats EXCEPT !.pc = "done", !.breakdown = "failed",
                             !.status = 500, !.sent = @ + 1,
                             !.error = "Failed to fetch statistics"]
          ELSE [stats EXCEPT
                   !.pc = "done", !.breakdown = "done",
                   !.status = 200, !.sent = @ + 1,
                   !.body =
                      [totalProducts |-> stats.results[1].num,
                       totalQuantity |-> OrZero(stats.results[2]).num,
                       averagePrice |-> ToFixed2(OrZero(stats.results[3])),
                       minPrice |-> ToFixed2(OrZero(stats.results[4])),
                       maxPrice |-> ToFixed2(OrZero(stats.results[5])),
                       categoryCount |-> stats.results[6].num,
                       categoryBreakdown |-> GroupByCategory(products),
                       timestamp |-> now]]
    /\ UNCHANGED <<products, now, list, resp, csv, posted, limits, categories, posts, ui>>

StatsEnd ==
    /\ stats.pc = "done"
    /\ stats' = StatsIdle
    /\ UNCHANGED <<products, now, list, resp, csv, posted, limits, categories, posts, ui>>

----------------------------------------------------------------------------
(* GET /api/products/export/csv *)

\* headers
CsvHeaders ==
    <<<<"I", "D">>, <<"C", "a", "t", "e", "g", "o", "r", "y">>, <<"N", "a", "m", "e">>,
      <<"D", "e", "s", "c", "r", "i", "p", "t", "i", "o", "n">>,
      <<"Q", "u", "a", "n", "t", "i", "t", "y">>,
      <<"U", "n", "i", "t", " ", "P", "r", "i", "c", "e">>, <<"C", "o", "d", "e">>>>

\* Array.prototype.join(sep) of an array of texts
RECURSIVE Join(_, _)
Join(texts, sep) ==
    IF texts = <<>> THEN <<>>
    ELSE IF Len(texts) = 1 THEN texts[1]
    ELSE texts[1] \o sep \o Join(Tail(texts), sep)

\* s.replace(/"/g, '""')
RECURSIVE DoubleQuotes(_)
DoubleQuotes(s) ==
    IF s = <<>> THEN <<>>
    ELSE (IF Head(s) = "\"" THEN <<"\"", "\"">> ELSE <<Head(s)>>)
         \o DoubleQuotes(Tail(s))

\* `"${s}"`
Quoted(s) == <<"\"">> \o s \o <<"\"">>

\* row.description || ''
DescriptionOrEmpty(r) == IF r.description = Null THEN <<>> ELSE r.description

\* The line of one row: values.join(',')
CsvLine(r) ==
    Join(<<r.id, Quoted(r.category), Quoted(r.name),
           Quoted(DoubleQuotes(DescriptionOrEmpty(r))),
           NumeralText(r.quantity), NumeralText(r.unit_price), r.code>>, <<",">>)

NoCsv == [status |-> 0, error |-> "", body |-> <<>>]

\* The handler: SELECT * FROM products ORDER BY id and its callback.
CsvExport(ioerr) ==
    /\ csv = NoCsv
    /\ IF ioerr
       THEN csv' = [status |-> 500, error |-> "Failed to export products", body |-> <<>>]
       ELSE \E rows \in SortedSeqs(products, S_id, S_ASC) :
               csv' = [status |-> 200, error |-> "",
                       body |-> Join(<<Join(CsvHeaders, <<",">>)>>
                                     \o [i \in 1..Len(rows) |-> CsvLine(rows[i])],
                                     <<"\n">>)]
    /\ UNCHANGED <<products, now, list, resp, stats, posted, limits, categories, posts, ui>>

CsvEnd ==
    /\ csv # NoCsv
    /\ csv' = NoCsv
    /\ UNCHANGED <<products, now, list, resp, stats, posted, limits, categories, posts, ui>>

----------------------------------------------------------------------------
(* The rate limiters *)

\* The keys of the limiters: the client addresses.
Clients == {"a", "b", "c"}

\* max of limiter and of strictLimiter
LimiterMax == 100
StrictMax == 20

\* Mutant: strictLimiter on app.post only.
StrictRoutesPostOnly == {"post"}

\* The routes whose handlers write to the table, and the routes under /api/
\* at large.
WriteRoutes == {"post", "put", "delete"}
ApiRoutes == WriteRoutes \cup {"get"}

\* The routes that name strictLimiter: app.post, app.put, app.delete.
StrictRoutes == {"post", "put", "delete"}

\* hits, writeHits: the counters of limiter and of strictLimiter in the
\* running window of each client; admitted, admittedWrites: the requests of
\* that window that were passed on to a route handler.
NoLimits ==
    [hits |-> [c \in Clients |-> 0], writeHits |-> [c \in Clients |-> 0],
     admitted |-> [c \in Clients |-> 0], admittedWrites |-> [c \in Clients |-> 0]]

\* express-rate-limit counts the request and refuses it with 429 when the
\* count of the window is above max.
OverLimit(hits, max) == hits > max

\* strictLimiter sees the requests that limiter has passed on to a route
\* that names it.
ReachesStrict(c, route) ==
    ~OverLimit(limits.hits[c] + 1, LimiterMax) /\ route \in StrictRoutes

\* The request of client c for a route under /api/ is passed on to the
\* handler of the route.
Passes(c, route) ==
    /\ ~OverLimit(limits.hits[c] + 1, LimiterMax)
    /\ ReachesStrict(c, route) => ~OverLimit(limits.writeHits[c] + 1, StrictMax)

\* The counters after the request.
Counted(c, route) ==
    [limits EXCEPT
        !.hits[c] = @ + 1,
        !.writeHits[c] = @ + (IF ReachesStrict(c, route) THEN 1 ELSE 0),
        !.admitted[c] = @ + (IF Passes(c, route) THEN 1 ELSE 0),
        !.admittedWrites[c] =
            @ + (IF Passes(c, route) /\ route \in WriteRoutes THEN 1 ELSE 0)]

\* windowMs after the first hit of client c the window of limiter ends.
LimiterWindowEnds(c) ==
    /\ limits.hits[c] > 0
    /\ limits' = [limits EXCEPT !.hits[c] = 0, !.admitted[c] = 0]
    /\ UNCHANGED <<products, now, list, resp, stats, csv, posted, categories, posts, ui>>

\* The same for strictLimiter.
StrictWindowEnds(c) ==
    /\ limits.writeHits[c] > 0
    /\ limits' = [limits EXCEPT !.writeHits[c] = 0, !.admittedWrites[c] = 0]
    /\ UNCHANGED <<products, now, list, resp, stats, csv, posted, categories, posts, ui>>

----------------------------------------------------------------------------
(* GET /api/categories *)

NoCategories == [status |-> 0, error |-> "", body |-> <<>>]

\* The texts of a set in ascending BINARY order.
RECURSIVE Ascending(_)
Ascending(texts) ==
    IF texts = {} THEN <<>>
    ELSE LET first == CHOOSE x \in texts : \A y \in texts \ {x} : TextLess(x, y)
         IN  <<first>> \o Ascending(texts \ {first})

\* Mutant: SELECT DISTINCT category COLLATE NOCASE, the categories that
\* differ by case only are one category.
SelectDistinctCategoryNoCase(table) ==
    LET Lower(t) == [i \in 1..Len(t) |-> ToLowerChar(t[i])]
    IN  Ascending({Lower(r.category) : r \in table})

\* SELECT DISTINCT category FROM products ORDER BY category, and
\* rows.map(row => row.category)
SelectDistinctCategory(table) == Ascending({r.category : r \in table})

\* The handler: one statement and its callback.
Categories(ioerr) ==
    /\ categories = NoCategories
    /\ categories' =
          IF ioerr
          THEN [status |-> 500, error |-> "Failed to fetch categories", body |-> <<>>]
          ELSE [status |-> 200, error |-> "", body |-> SelectDistinctCategory(products)]
    /\ UNCHANGED <<products, now, list, resp, stats, csv, posted, limits, posts, ui>>

CategoriesEnd ==
    /\ categories # NoCategories
    /\ categories' = NoCategories
    /\ UNCHANGED <<products, now, list, resp, stats, csv, posted, limits, posts, ui>>

----------------------------------------------------------------------------
(* Concurrent POST requests *)

\* A POST /api/products of a client: its body, the values bound to the
\* INSERT statement once the middleware and the handler have run, and its
\* response.
PostIdle == [pc |-> "idle", body |-> NoBody, bound |-> NoBody, status |-> 0, error |-> ""]

NoPosts == [c \in Clients |-> PostIdle]

\* The row the INSERT statement writes from the bound values.
InsertedRow(sb) ==
    [id |-> sb.id.s, category |-> sb.category.s, name |-> sb.name.s,
     description |-> StoredText(sb.description),
     quantity |-> StoredNumber(sb.quantity),
     unit_price |-> ParseFloat(sb.unit_price).n, code |-> sb.code.s,
     created_at |-> now, updated_at |-> now]

\* validateProduct, handleValidationErrors and the handler up to db.run: the
\* statement is queued.
PostStart(c, b) ==
    LET sb == Sanitized(b)
        P(pc, status, error) ==
            [posts EXCEPT ![c] = [pc |-> pc, body |-> b, bound |-> sb,
                                  status |-> status, error |-> error]]
    IN  /\ posts[c].pc = "idle"
        /\ posts' = IF Rejected(ProductErrors(b)) THEN P("done", 400, "errors")
                     ELSE IF MissingRequired(sb)
                     THEN P("done", 400, "Missing required fields")
                     ELSE P("insert", 0, "")
        /\ UNCHANGED <<products, now, list, resp, stats, csv, posted, limits, categories, ui>>

\* Mutant: INSERT OR REPLACE INTO products.
PostInsertOrReplace(c, ioerr) ==
    LET row == InsertedRow(posts[c].bound)
    IN  /\ posts[c].pc = "insert"
        /\ posts' = [posts EXCEPT ![c].pc = "done", ![c].status = 201]
        /\ products' = {r \in products : r.id # row.id} \cup {row}
        /\ UNCHANGED <<now, list, resp, stats, csv, posted, limits, categories, ui>>

\* The INSERT statement executes, one statement at a time, and its callback
\* answers: id is the PRIMARY KEY, a second row with the id is an error.
PostInsert(c, ioerr) ==
    LET row == InsertedRow(posts[c].bound)
    IN  /\ posts[c].pc = "insert"
        /\ IF ioerr \/ \E r \in products : r.id = row.id
           THEN /\ posts' = [posts EXCEPT ![c].pc = "done", ![c].status = 500,
                                          ![c].error = "Failed to create product"]
                /\ UNCHANGED products
           ELSE /\ posts' = [posts EXCEPT ![c].pc = "done", ![c].status = 201]
                /\ products' = products \cup {row}
        /\ UNCHANGED <<now, list, resp, stats, csv, posted, limits, categories, ui>>

----------------------------------------------------------------------------
(* The page in the browser (app.js) *)

\* localStorage.getItem of a key without item: null
NoItem == Null

\* The entries kept by addToSearchHistory.
HistoryLimit == 10

\* JSON.stringify of a string: quoted, with " and \ escaped.
RECURSIVE JsonEscaped(_)
JsonEscaped(t) ==
    IF t = <<>> THEN <<>>
    ELSE (IF Head(t) \in {"\"", "\\"} THEN <<"\\", Head(t)>> ELSE <<Head(t)>>)
         \o JsonEscaped(Tail(t))

RECURSIVE JsonItems(_)
JsonItems(a) ==
    IF a = <<>> THEN <<>>
    ELSE <<"\"">> \o JsonEscaped(Head(a)) \o <<"\"">>
         \o (IF Len(a) > 1 THEN <<",">> ELSE <<>>) \o JsonItems(Tail(a))

\* JSON.stringify of an array of strings
JsonStringify(a) == <<"[">> \o JsonItems(a) \o <<"]">>

\* The string that starts after the quote at position i - 1 of text s, and
\* the position after its closing quote.
RECURSIVE JsonReadString(_, _, _)
JsonReadString(s, i, acc) ==
    IF s[i] = "\"" THEN <<acc, i + 1>>
    ELSE IF s[i] = "\\" THEN JsonReadString(s, i + 2, Append(acc, s[i + 1]))
    ELSE JsonReadString(s, i + 1, Append(acc, s[i]))

\* The strings of the array from the quote at position i of text s on.
RECURSIVE JsonReadItems(_, _, _)
JsonReadItems(s, i, acc) ==
    LET item == JsonReadString(s, i + 1, <<>>)
    IN  IF s[item[2]] = ","
        THEN JsonReadItems(s, item[2] + 1, Append(acc, item[1]))
        ELSE Append(acc, item[1])

\* JSON.parse of the text of an array of strings
JsonParse(s) == IF s = <<"[", "]">> THEN <<>> ELSE JsonReadItems(s, 2, <<>>)

\* JSON.parse(localStorage.getItem('searchHistory') || '[]')
LoadedHistory(item) == JsonParse(IF item = NoItem \/ item = <<>> THEN <<"[", "]">> ELSE item)

\* Mutant: unshift without the filter before it.
WithTermUnfiltered(history, term) ==
    LET added == <<term>> \o history
    IN  SubSeq(added, 1, Min(HistoryLimit, Len(added)))

\* filter(item => item !== term), unshift(term), slice(0, 10)
WithTerm(history, term) ==
    LET added == <<term>> \o SelectSeq(history, LAMBDA item : item # term)
    IN  SubSeq(added, 1, Min(HistoryLimit, Len(added)))

\* searchHistory, storage: the variable of app.js and the item
\* 'searchHistory' of localStorage; added: the term of the last call of
\* addToSearchHistory since the list was cleared.
\* view: the list on display, the request that gave it (source, q) and the
\* pagination object its buttons were rendered from; fetch: the request
\* awaited; click: the button that sent it.
NoView ==
    [source |-> "none", q |-> NoQuery, paged |-> FALSE,
     page |-> 0, totalPages |-> 0, total |-> 0]

NoFetch == [by |-> "none", q |-> NoQuery]

UiIdle ==
    [searchHistory |-> LoadedHistory(NoItem), storage |-> NoItem, added |-> NoItem,
     view |-> NoView, fetch |-> NoFetch, click |-> "none"]

\* limit=12
PageSizeText == <<"1", "2">>

\* The value of an input element in a query string, absent when it is empty.
QueryValue(text) == IF text = <<>> THEN Undef ELSE Str(text)

\* fetch(`${API_BASE}/products?page=${page}&limit=12`)
loadAllProducts(page, click) ==
    /\ ui.fetch = NoFetch
    /\ ui' = [ui EXCEPT
                 !.fetch = [by |-> "load",
                            q |-> [NoQuery EXCEPT !.page = Str(NumeralText(page)),
                                                  !.limit = Str(PageSizeText)]],
                 !.click = click]
    /\ UNCHANGED <<products, now, list, resp, stats, csv, posted, limits, categories, posts>>

\* The Previous and Next buttons that displayPagination has rendered.
Previous ==
    /\ ui.view.paged
    /\ ui.view.page # 1
    /\ loadAllProducts(ui.view.page - 1, "previous")

NextPage ==
    /\ ui.view.paged
    /\ ~(ui.view.page >= ui.view.totalPages)
    /\ loadAllProducts(ui.view.page + 1, "next")

\* applyFilters with the values of the four inputs
applyFilters(category, minPrice, maxPrice, sortBy) ==
    /\ ui.fetch = NoFetch
    /\ ui' = [ui EXCEPT
                 !.fetch = [by |-> "filter",
                            q |-> [NoQuery EXCEPT !.page = Str(<<"1">>),
                                                  !.limit = Str(PageSizeText),
                                                  !.category = QueryValue(category),
                                                  !.minPrice = QueryValue(minPrice),
                                                  !.maxPrice = QueryValue(maxPrice),
                                                  !.sortBy = Str(sortBy)]],
                 !.click = "none"]
    /\ UNCHANGED <<products, now, list, resp, stats, csv, posted, limits, categories, posts>>

\* searchProduct with a term that is not of the form of an id
searchProduct(input) ==
    LET searchTerm == Trim(input)
    IN  /\ ui.fetch = NoFetch
        /\ searchTerm # <<>>
        /\ ui' = [ui EXCEPT
                     !.searchHistory = WithTerm(ui.searchHistory, searchTerm),
                     !.storage = JsonStringify(WithTerm(ui.searchHistory, searchTerm)),
                     !.added = searchTerm,
                     !.fetch = [by |-> "search",
                                q |-> [NoQuery EXCEPT !.search = Str(searchTerm),
                                                      !.page = Str(<<"1">>),
                                                      !.limit = Str(PageSizeText)]],
                     !.click = "none"]
        /\ UNCHANGED <<products, now, list, resp, stats, csv, posted, limits, categories, posts>>

\* The response of the awaited request: displayProducts and
\* displayPagination, or the error banner over the list as it is.
Receive ==
    /\ ui.fetch # NoFetch
    /\ list.pc = "done"
    /\ list.q = ui.fetch.q
    /\ ui' = [ui EXCEPT
                 !.fetch = NoFetch,
                 !.click = "none",
                 !.view =
                    IF list.status # 200 THEN ui.view
                    ELSE [source |-> ui.fetch.by, q |-> ui.fetch.q,
                          paged |-> ui.fetch.by # "search" \/ Len(list.products) > 1,
                          page |-> list.pageNum, totalPages |-> list.totalPages,
                          total |-> list.total]]
    /\ UNCHANGED <<products, now, list, resp, stats, csv, posted, limits, categories, posts>>

addToSearchHistory(term) ==
    /\ ui' = [ui EXCEPT !.searchHistory = WithTerm(ui.searchHistory, term),
                        !.storage = JsonStringify(WithTerm(ui.searchHistory, term)),
                        !.added = term]
    /\ UNCHANGED <<products, now, list, resp, stats, csv, posted, limits, categories, posts>>

clearSearchHistory ==
    /\ ui' = [ui EXCEPT !.searchHistory = <<>>, !.storage = NoItem, !.added = NoItem]
    /\ UNCHANGED <<products, now, list, resp, stats, csv, posted, limits, categories, posts>>

\* The page is loaded again: line 10 runs on the stored item.
Reload ==
    /\ ui' = [ui EXCEPT !.searchHistory = LoadedHistory(ui.storage)]
    /\ UNCHANGED <<products, now, list, resp, stats, csv, posted, limits, categories, posts>>

----------------------------------------------------------------------------
(* Tables and requests of the listing specifications *)

\* The id NNN-NN of the n-th product, as seed-db.js numbers them.
IdText(n) == <<"0", "0", "0", "-", Digits[(n \div 10) + 1], Digits[(n % 10) + 1]>>

MkRow(id, category, name, description, quantity, unit_price, code) ==
    [id |-> id, category |-> category, name |-> name, description |-> description,
     quantity |-> quantity, unit_price |-> unit_price, code |-> code,
     created_at |-> 0, updated_at |-> 0]

NumListRows == 3

\* Rows as the seed script or POST leaves them: categories that differ by
\* case only, a NULL description, equal quantities, text holding % and _.
ListRows ==
    <<MkRow(IdText(1), <<"a", "b">>, <<"E", "x">>, <<"a", "%", "b">>, 2, 0, <<"s", "1">>),
      MkRow(IdText(2), <<"A", "B">>, <<"e", "x">>, Null, 2, 1, <<"S", "2">>),
      MkRow(IdText(3), <<"b">>, <<"a", "_", "b">>, <<"d">>, 0, 2, <<"x">>),
      MkRow(IdText(4), <<"a", " ", "b">>, <<"c", "a", "b">>, <<>>, 1, 1, <<"e">>),
      MkRow(IdText(5), <<"B", "a">>, <<"d">>, <<"s">>, 1, 3, <<"d", "-", "1">>)>>

ListTables == SUBSET {ListRows[i] : i \in 1..Min(NumListRows, Len(ListRows))}

CategoryTerms ==
    {Undef, Str(<<>>), Str(<<"a">>), Str(<<"B">>), Str(<<"a", "b">>), Str(<<"_">>),
     Str(<<"a", "%", "b">>)}

SearchTerms ==
    {Undef, Str(<<>>), Str(<<"x">>), Str(<<"d">>), Str(<<"2">>), Str(<<"_">>),
     Str(<<"%">>)}

PriceTerms == {Undef, Str(<<>>), Str(<<"0">>), Str(<<"1">>), Str(<<"2">>), Str(<<"x">>)}

SortByTerms ==
    {Undef, Str(<<>>), Str(S_id), Str(S_name), Str(S_category), Str(S_quantity),
     Str(S_unit_price), Str(S_code), Str(S_description), Str(<<"I", "D">>),
     Str(<<"i", "d", ";", "x">>), Arr(<<"i", "d", ",", "x">>)}

OrderTerms ==
    {Undef, Str(<<>>), Str(S_ASC), Str(<<"a", "s", "c">>), Str(S_DESC),
     Str(<<"d", "e", "s", "c">>), Str(<<"D", "e", "s", "c">>), Str(<<"x">>),
     Str(<<"D", "E", "S", "C", " ">>), Arr(S_DESC), Arr(<<"D", "E", "S", "C", ",", "x">>)}

PageTerms ==
    {Undef, Str(<<>>), Str(<<"0">>), Str(<<"1">>), Str(<<"2">>), Str(<<"3">>),
     Str(<<"-", "1">>), Str(<<"x">>), Str(<<"2", "x">>)}

LimitTerms ==
    {Undef, Str(<<>>), Str(<<"0">>), Str(<<"1">>), Str(<<"2">>), Str(<<"-", "1">>),
     Str(<<"-", "2">>), Str(<<"x">>), Arr(<<"1", ",", "2">>)}

\* Requests that vary the filters, the sort and the paging in turn.
FilterQueries ==
    { [NoQuery EXCEPT !.category = c, !.search = s, !.minPrice = lo, !.maxPrice = hi] :
      c \in CategoryTerms, s \in SearchTerms, lo \in PriceTerms, hi \in PriceTerms }

SortQueries ==
    { [NoQuery EXCEPT !.sortBy = sb, !.order = o, !.category = c, !.limit = l] :
      sb \in SortByTerms, o \in OrderTerms, c \in {Undef, Str(<<"b">>)},
      l \in {Undef, Str(<<"2">>)} }

PageQueries ==
    { [NoQuery EXCEPT !.page = p, !.limit = l, !.sortBy = sb, !.order = o,
                      !.maxPrice = hi] :
      p \in PageTerms, l \in LimitTerms, sb \in {Undef, Str(S_quantity)},
      o \in {Undef, Str(S_DESC)}, hi \in {Undef, Str(<<"1">>)} }

ListQueries == FilterQueries \cup SortQueries \cup PageQueries

InitList ==
    /\ products \in ListTables
    /\ now = 0
    /\ list = ListIdle
    /\ resp = NoResp
    /\ stats = StatsIdle
    /\ csv = NoCsv
    /\ posted = {}
    /\ limits = NoLimits
    /\ categories = NoCategories
    /\ posts = NoPosts
    /\ ui = UiIdle

NextList ==
    \/ \E q \in ListQueries : ListStart(q)
    \/ ListCount(FALSE)
    \/ ListPage(FALSE)
    \/ ListEnd

\* GET /api/products on a table that no request writes.
SpecList == InitList /\ [][NextList]_vars

\* A table larger than the default page: products 000-01 .. 000-NN.
BigRows == 21

BigRow(i) ==
    MkRow(IdText(i),
          IF i % 3 = 0 THEN <<"a", "b">> ELSE IF i % 3 = 1 THEN <<"A", "B">> ELSE <<"b">>,
          <<"e", "x">>, <<"d">>, i % 4, i % 5, IdText(i))

BigQueries ==
    {NoQuery, [NoQuery EXCEPT !.page = Str(<<"2">>)],
     [NoQuery EXCEPT !.order = Str(S_DESC)], [NoQuery EXCEPT !.limit = Str(<<"5">>)]}

InitBig ==
    /\ \E n \in 0..BigRows : products = {BigRow(i) : i \in 1..n}
    /\ now = 0
    /\ list = ListIdle
    /\ resp = NoResp
    /\ stats = StatsIdle
    /\ csv = NoCsv
    /\ posted = {}
    /\ limits = NoLimits
    /\ categories = NoCategories
    /\ posts = NoPosts
    /\ ui = UiIdle

NextBig ==
    \/ \E q \in BigQueries : ListStart(q)
    \/ ListCount(FALSE)
    \/ ListPage(FALSE)
    \/ ListEnd

\* GET /api/products on tables of up to BigRows rows.
SpecBig == InitBig /\ [][NextBig]_vars

----------------------------------------------------------------------------
(* Requests of the write specification *)

\* Text of n characters.
LongText(n) == [i \in 1..n |-> "a"]

\* A body that satisfies every rule, as the one of test 'should create a
\* new product'.
GoodBody(id) ==
    [id |-> Str(id), category |-> Str(<<"a", "b">>), name |-> Str(<<"e", "x">>),
     description |-> Str(<<"d">>), quantity |-> Num(2), unit_price |-> Num(1),
     code |-> Str(id)]

\* The good body with one field changed.
BodiesOf(id) ==
    LET g == GoodBody(id)
    IN  {g}
        \cup { [g EXCEPT !.id = v] :
               v \in {Undef, Str(<<"b", "a", "d">>), Str(<<" ">> \o id \o <<" ">>),
                      Str(id \o <<"1">>)} }
        \cup { [g EXCEPT !.category = v] :
               v \in {Undef, Str(<<" ">>), Str(<<" ", "b", " ">>),
                      Str(LongText(MaxCategoryLen + 1))} }
        \cup { [g EXCEPT !.name = v] : v \in {Undef, Str(<<>>), Str(LongText(MaxNameLen + 1))} }
        \cup { [g EXCEPT !.description = v] :
               v \in {Undef, Str(<<>>), Str(<<" ">>), Str(LongText(MaxDescriptionLen + 1))} }
        \cup { [g EXCEPT !.quantity = v] :
               v \in {Undef, Num(0), Num(0 - 1), Str(<<"2">>), Str(<<"x">>)} }
        \cup { [g EXCEPT !.unit_price = v] :
               v \in {Undef, Num(0), Num(0 - 1), Str(<<"0">>), Str(<<"2">>), Str(<<"x">>)} }
        \cup { [g EXCEPT !.code = v] : v \in {Undef, Str(<<"x">>), Str(LongText(MaxCodeLen + 1))} }

NumIds == 2

\* Every body for the first product, the good body for the others.
Bodies == BodiesOf(IdText(1)) \cup {GoodBody(IdText(i)) : i \in 1..NumIds}

PathIds ==
    {Str(IdText(i)) : i \in 1..NumIds}
    \cup {Str(<<"b", "a", "d">>), Str(<<"0", "0", "0", "-", "1">>),
          Str(<<"0">> \o IdText(1)), Str(<<" ">> \o IdText(1)), Str(IdText(1) \o <<"x">>)}

\* Every body on the path of the first product, and on every path the
\* good body, the body without id and the body without description.
PutRequests ==
    { <<Str(IdText(1)), b>> : b \in BodiesOf(IdText(1)) }
    \cup { <<p, b>> : p \in PathIds,
                      b \in {GoodBody(IdText(1)),
                             [GoodBody(IdText(1)) EXCEPT !.id = Undef],
                             [GoodBody(IdText(1)) EXCEPT !.description = Undef]} }

Init ==
    /\ products = {}
    /\ now = 0
    /\ list = ListIdle
    /\ resp = NoResp
    /\ stats = StatsIdle
    /\ csv = NoCsv
    /\ posted = {}
    /\ limits = NoLimits
    /\ categories = NoCategories
    /\ posts = NoPosts
    /\ ui = UiIdle

\* A request is sent when the last one has been answered.
Next ==
    \/ \E b \in Bodies : resp = NoResp /\ Post(b, FALSE) /\ UNCHANGED limits
    \/ \E r \in PutRequests : resp = NoResp /\ Put(r[1], r[2], FALSE) /\ UNCHANGED limits
    \/ \E id \in PathIds : resp = NoResp /\ Delete(id, FALSE) /\ UNCHANGED limits
    \/ \E id \in PathIds : resp = NoResp /\ GetById(id, FALSE) /\ UNCHANGED limits
    \/ Repeat
    \/ RequestEnd

\* The write and read-by-id requests, one at a time, from an empty table.
Spec == Init /\ [][Next]_vars

\* Two valid bodies for each of two products.
TimeBodies ==
    UNION { {GoodBody(IdText(i)), [GoodBody(IdText(i)) EXCEPT !.category = Str(<<"b">>)]} :
            i \in 1..2 }

TimePathIds == {Str(IdText(i)) : i \in 1..2}

NextTime ==
    \/ \E b \in TimeBodies : resp = NoResp /\ Post(b, FALSE) /\ UNCHANGED limits
    \/ \E id \in TimePathIds, b \in TimeBodies : resp = NoResp /\ Put(id, b, FALSE) /\ UNCHANGED limits
    \/ \E id \in TimePathIds : resp = NoResp /\ Delete(id, FALSE) /\ UNCHANGED limits
    \/ Repeat
    \/ RequestEnd
    \/ Tick

\* The write requests, one at a time, while the clock of the store advances.
SpecTime == Init /\ [][NextTime]_vars

\* The ten products of seed-db.js; of each description the first word (no
\* statement of the statistics reads the column).
SeedTable ==
    { MkRow(IdText(1), <<"c", "l", "o", "t", "h", "i", "n", "g">>,
            <<"b", "o", "h", "o", "o", " ", "c", "l", "o", "t", "h", "e", "s">>,
            <<"I", "t", "'", "s">>, 300, 30, IdText(1)),
      MkRow(IdText(2), <<"f", "o", "o", "t", "w", "e", "a", "r">>,
            <<"s", "h", "o", "e", "s">>,
            <<"S", "t", "e", "p">>, 115, 118, IdText(2)),
      MkRow(IdText(3), <<"A", "c", "c", "e", "s", "s", "o", "r", "i", "e", "s">>,
            <<"r", "i", "n", "g", "s">>,
            <<"f", "i", "n", "i", "s", "h">>, 218, 74, IdText(3)),
      MkRow(IdText(4), <<"c", "l", "o", "t", "h", "i", "n", "g">>,
            <<"s", "h", "i", "r", "t", "s">>,
            <<"L", "e", "v", "e", "l">>, 164, 69, IdText(4)),
      MkRow(IdText(5), <<"c", "l", "o", "t", "h", "i", "n", "g">>,
            <<"j", "a", "c", "k", "e", "t", "s">>,
            <<"A">>, 97, 198, IdText(5)),
      MkRow(IdText(6), <<"C", "l", "o", "t", "h", "i", "n", "g">>,
            <<"T", "r", "o", "u", "s", "e", "r", "s">>,
            <<"n", "e", "e", "e", "d">>, 59, 98, IdText(6)),
      MkRow(IdText(7), <<"C", "l", "o", "t", "h", "i", "n", "g">>,
            <<"b", "o", "o", "h", "o", "o", " ", "H", "o", "o", "d", "i", "e">>,
            <<"T", "H", "o", "o", "d", "i", "e">>, 100, 60, IdText(7)),
      MkRow(IdText(8), <<"C", "a", "s", "u", "a", "l", " ", "w", "e", "a", "r">>,
            <<"s", "u", "n", "g", "l", "a", "s", "s", "e", "s">>,
            <<"C", "h", "o", "o", "s", "i", "n", "g">>, 100, 45, IdText(8)),
      MkRow(IdText(9), <<"C", "a", "s", "u", "a", "l", " ", "w", "e", "a", "r">>,
            <<"b", "e", "l", "t", "s">>,
            <<"G", "e", "t">>, 173, 60, IdText(9)),
      MkRow(IdText(10), <<"B", "a", "g", "s">>,
            <<"c", "a", "s", "u", "a", "l", " ", "w", "e", "a", "r">>,
            <<"T", "o", "o">>, 138, 40, IdText(10)) }

\* Tables for the statistics: the seed data, the tables of the listing
\* specifications and tables of 0 .. BigRows rows.
StatTables ==
    {SeedTable} \cup ListTables \cup {{BigRow(i) : i \in 1..n} : n \in 0..BigRows}

InitStats ==
    /\ products \in StatTables
    /\ now = 0
    /\ list = ListIdle
    /\ resp = NoResp
    /\ stats = StatsIdle
    /\ csv = NoCsv
    /\ posted = {}
    /\ limits = NoLimits
    /\ categories = NoCategories
    /\ posts = NoPosts
    /\ ui = UiIdle

NextStats ==
    \/ StatsStart
    \/ \E i \in 1..NumStatements : StatsQuery(i, FALSE)
    \/ StatsBreakdown(FALSE)
    \/ StatsEnd

\* GET /api/statistics on a table that no request writes.
SpecStats == InitStats /\ [][NextStats]_vars

\* The writes that race with the statistics: two products of different
\* categories are created, one is updated, one is deleted.
RaceBodies ==
    {GoodBody(IdText(1)), [GoodBody(IdText(2)) EXCEPT !.category = Str(<<"b">>)]}

NextRace ==
    \/ StatsStart
    \/ \E i \in 1..NumStatements : StatsQuery(i, FALSE)
    \/ StatsBreakdown(FALSE)
    \/ StatsEnd
    \/ \E b \in RaceBodies : resp = NoResp /\ Post(b, FALSE) /\ UNCHANGED limits
    \/ \E b \in RaceBodies : resp = NoResp /\ Put(Str(IdText(1)), b, FALSE) /\ UNCHANGED limits
    \/ resp = NoResp /\ Delete(Str(IdText(1)), FALSE) /\ UNCHANGED limits
    \/ RequestEnd

\* GET /api/statistics while write requests are processed: every statement
\* is atomic, and between two statements of the statistics any number of
\* writes may execute.
SpecRace == Init /\ [][NextRace]_vars

NumCsvRows == 6

\* Rows for the export: rows of the listing specifications and rows whose
\* text holds double quotes and commas.
CsvRows ==
    <<ListRows[1], ListRows[2],
      MkRow(IdText(6), <<"a", "\"", "b">>, <<"\"", "e", "\"">>, <<"a", "\"", "b">>, 1, 2,
            <<"x">>),
      MkRow(IdText(7), <<"a", ",", "b">>, <<"e">>, <<"\"">>, 0, 0, <<"a", ",", "b">>),
      ListRows[4],
      MkRow(IdText(8), <<"b">>, <<"e">>, <<"d", ",", "d">>, 12, 30, <<"\"", "x", "\"">>),
      ListRows[3], ListRows[5]>>

CsvTables == SUBSET {CsvRows[i] : i \in 1..Min(NumCsvRows, Len(CsvRows))}

InitCsv ==
    /\ products \in CsvTables
    /\ now = 0
    /\ list = ListIdle
    /\ resp = NoResp
    /\ stats = StatsIdle
    /\ csv = NoCsv
    /\ posted = {}
    /\ limits = NoLimits
    /\ categories = NoCategories
    /\ posts = NoPosts
    /\ ui = UiIdle

NextCsv ==
    \/ CsvExport(FALSE)
    \/ CsvEnd

\* GET /api/products/export/csv on a table that no request writes.
SpecCsv == InitCsv /\ [][NextCsv]_vars

----------------------------------------------------------------------------
(* Properties of GET /api/products *)

Range(f) == {f[i] : i \in DOMAIN f}

\* Text s contains text term as a substring, letters compared without
\* regard to case (the comparison of the storage engine).
ContainsText(s, term) ==
    /\ s # Null
    /\ \E i \in 0..(Len(s) - Len(term)) :
          \A j \in 1..Len(term) : ToLowerChar(s[i + j]) = ToLowerChar(term[j])

\* The filter value denotes a number and the price is on the right side of it.
PriceAtLeast(price, v) == ParseFloat(v).k = "num" /\ price >= ParseFloat(v).n
PriceAtMost(price, v) == ParseFloat(v).k = "num" /\ price <= ParseFloat(v).n

\* The row satisfies every supplied non-empty filter of the request.
SatisfiesFilters(r, q) ==
    /\ Truthy(q.category) => ContainsText(r.category, q.category.s)
    /\ Truthy(q.search) =>
          \/ ContainsText(r.name, q.search.s)
          \/ ContainsText(r.description, q.search.s)
          \/ ContainsText(r.code, q.search.s)
    /\ Truthy(q.minPrice) => PriceAtLeast(r.unit_price, q.minPrice)
    /\ Truthy(q.maxPrice) => PriceAtMost(r.unit_price, q.maxPrice)

Answered == list.pc = "done" /\ list.status = 200

\* C1: a row is matched (counted in total and, the page being large enough,
\* returned) if and only if it satisfies every supplied non-empty filter.
C1_MatchIffAllFilters ==
    (Answered /\ list.q.page = Undef /\ list.q.limit = Undef) =>
        LET want == {r \in products : SatisfiesFilters(r, list.q)}
        IN  /\ Range(list.products) = want
            /\ list.total = Cardinality(want)

\* The rows the statement of the request matches in the table.
Matching(q) == {r \in products : WhereHolds(r, WhereClauses(q), FilterParams(q))}

\* rows is ordered by col in direction dir.
OrderedBy(rows, col, dir) ==
    \A i, j \in 1..Len(rows) : i < j => ~Before(rows[j], rows[i], col, dir)

\* The elements of sorted at the 0-based positions lo..hi that exist.
Positions(sorted, lo, hi) ==
    LET idx == {i \in lo..hi : 0 <= i /\ i < Len(sorted)}
    IN  IF idx = {} THEN <<>>
        ELSE [k \in 1..Cardinality(idx) |->
                 sorted[(CHOOSE m \in idx : \A o \in idx : m <= o) + k]]

\* C2: the products are the rows at positions offset..offset+limit-1 of the
\* matching rows in the requested order, and total counts all matching rows.
C2_PageOfSortedMatches ==
    Answered =>
        LET page == list.pageNum
            limit == list.limitNum
            offset == (page - 1) * limit
            all == Matching(list.q)
        IN  /\ list.total = Cardinality(all)
            /\ \E sorted \in [1..Cardinality(all) -> all] :
                  /\ Range(sorted) = all
                  /\ OrderedBy(sorted, SortColumn(list.q), SortOrder(list.q))
                  /\ list.products = Positions(sorted, offset, offset + limit - 1)

\* The request has passed the query builder (no exception was thrown).
Built == list.pc \in {"count", "page"} \/ (list.pc = "done" /\ list.db > 0)

InAllowList(v) == v.k = "str" /\ v.s \in ValidSortColumns

\* C4: a sortBy outside the allow-list gives the statements, and so the
\* response, of the same request with sortBy=id; a sortBy of the list orders
\* the rows by that column.
C4_SortByAllowList ==
    /\ (Built /\ ~InAllowList(list.q.sortBy)) =>
          /\ list.query = PageQuery([list.q EXCEPT !.sortBy = Str(S_id)])
          /\ list.countQuery = CountQuery([list.q EXCEPT !.sortBy = Str(S_id)])
          /\ list.query[Len(list.query) - 3] = Interp(S_id)
          /\ Answered => OrderedBy(list.products, S_id, SortOrder(list.q))
    /\ (Answered /\ InAllowList(list.q.sortBy)) =>
          OrderedBy(list.products, list.q.sortBy.s, SortOrder(list.q))

C4_Witness ==
    /\ Answered
    /\ list.q.sortBy = Str(<<"i", "d", ";", "x">>)
    /\ Len(list.products) >= 2

\* The order value equals DESC without regard to case.
IsDescWord(v) ==
    /\ v.k = "str" /\ Len(v.s) = 4
    /\ ToLowerChar(v.s[1]) = "d" /\ ToLowerChar(v.s[2]) = "e"
    /\ ToLowerChar(v.s[3]) = "s" /\ ToLowerChar(v.s[4]) = "c"

SortedColumnOf(q) == IF InAllowList(q.sortBy) THEN q.sortBy.s ELSE S_id

\* C5: the rows come in descending order when order is DESC in any case and
\* in ascending order for every other value, and no order value fails the
\* request.
C5_OrderNeverFails ==
    list.pc = "done" =>
        /\ list.status = 200
        /\ OrderedBy(list.products, SortedColumnOf(list.q),
                     IF IsDescWord(list.q.order) THEN S_DESC ELSE S_ASC)

\* The value is missing or does not start with a number.
NotNumeric(v) == v.k = "undef" \/ ParseInt(v).k = "nan"

\* C6: the effective page and limit are integers >= 1, and a missing or
\* non-numeric value is replaced by page 1 and limit 20.
C6_PageLimitPositive ==
    Built =>
        /\ list.pageNum >= 1
        /\ list.limitNum >= 1
        /\ NotNumeric(list.q.page) => list.pageNum = 1
        /\ NotNumeric(list.q.limit) => list.limitNum = 20

\* c is the ceiling of a / b, b # 0.
IsCeiling(c, a, b) ==
    IF b > 0 THEN c * b >= a /\ (c - 1) * b < a
    ELSE c * b <= a /\ (c - 1) * b > a

\* C7: offset = (page-1)*limit, totalPages = ceil(total/limit), and at most
\* limit products are returned.
C7_PaginationMath ==
    /\ Built => list.offset = (list.pageNum - 1) * list.limitNum
    /\ Answered =>
          /\ IsCeiling(list.totalPages, list.total, list.limitNum)
          /\ Len(list.products) <= list.limitNum

\* Requests that differ from q only in the value of category, search,
\* minPrice, maxPrice, page or limit, the same filters being present; every
\* request that differs in several of these values is a chain of such steps.
SameFilters(q) ==
    { [q EXCEPT !.category = c] : c \in {x \in CategoryTerms : Truthy(x) = Truthy(q.category)} }
    \cup { [q EXCEPT !.search = t] : t \in {x \in SearchTerms : Truthy(x) = Truthy(q.search)} }
    \cup { [q EXCEPT !.minPrice = lo] : lo \in {x \in PriceTerms : Truthy(x) = Truthy(q.minPrice)} }
    \cup { [q EXCEPT !.maxPrice = hi] : hi \in {x \in PriceTerms : Truthy(x) = Truthy(q.maxPrice)} }
    \cup { [q EXCEPT !.page = p] : p \in PageTerms }
    \cup { [q EXCEPT !.limit = l] : l \in LimitTerms }

\* C8: the text of the count and page statements is the same for requests
\* that differ only in filter, page and limit values; the only interpolated
\* text is an allow-listed column and a direction, and the values are bound.
C8_TextIndependentOfValues ==
    Built =>
        /\ \A q2 \in SameFilters(list.q) :
              /\ OrderThrows(q2) = FALSE
              /\ CountQuery(q2) = list.countQuery
              /\ PageQuery(q2) = list.query
        /\ \A i \in 1..Len(list.query) :
              list.query[i].sql = "" =>
                  list.query[i].text \in ValidSortColumns \cup {S_ASC, S_DESC}
        /\ \A i \in 1..Len(list.countQuery) : list.countQuery[i].sql # ""
        /\ Len(list.params) = PlaceholderCount(Tail(list.countQuery))

C8_Witness ==
    /\ list.pc = "page"
    /\ list.q.category = Str(<<"a", "%", "b">>)
    /\ list.q.search = Str(<<"_">>)
    /\ list.q.minPrice = Str(<<"x">>)
    /\ Len(list.params) = 5

\* C3 as claimed: the request without parameters returns every row of the
\* table, ordered by id ascending.
C3_NoFilterReturnsEveryRow ==
    (Answered /\ list.q = NoQuery) =>
        /\ Range(list.products) = products
        /\ Len(list.products) = Cardinality(products)
        /\ OrderedBy(list.products, S_id, S_ASC)

\* C3 as amended: the request without parameters returns the rows in
\* ascending id order up to the default limit of 20: every row of a table of
\* at most 20 rows, the 20 rows of smallest id otherwise; total counts every
\* row of the table.
C3_NoFilterReturnsFirstPage ==
    (Answered /\ list.q = NoQuery) =>
        /\ Range(list.products) \subseteq products
        /\ Len(list.products) = Min(DefaultLimit, Cardinality(products))
        /\ \A i, j \in 1..Len(list.products) :
              i < j => TextLess(list.products[i].id, list.products[j].id)
        /\ \A r \in products \ Range(list.products) :
              \A i \in 1..Len(list.products) : TextLess(list.products[i].id, r.id)
        /\ list.total = Cardinality(products)
        /\ list.pageNum = 1 /\ list.limitNum = DefaultLimit

C3_Witness ==
    /\ Answered /\ list.q = NoQuery
    /\ Cardinality(products) > DefaultLimit
    /\ Len(list.products) = DefaultLimit

----------------------------------------------------------------------------
(* Properties of the write handlers *)

DigitChars == {Digits[i] : i \in 1..10}

\* The text has the form NNN-NN.
WellFormedId(t) ==
    /\ Len(t) = 6
    /\ \A i \in {1, 2, 3, 5, 6} : t[i] \in DigitChars
    /\ t[4] = "-"

\* The field is text that, surrounding white space apart, has 1..max characters.
TextWithin(v, max) == v.k = "str" /\ Len(Trim(v.s)) >= 1 /\ Len(Trim(v.s)) <= max

\* The field is a number >= 0, given as a JSON number or as a numeral.
NonNegative(v) ==
    \/ v.k = "num" /\ v.n >= 0
    \/ /\ v.k = "str" /\ v.s # <<>>
       /\ \A i \in 1..Len(v.s) : v.s[i] \in DigitChars

\* The body satisfies the constraints of the Product data model: a
\* well-formed id, category, name and code present and within their
\* lengths, an optional description within its length, quantity and
\* unit_price numbers >= 0.
ValidProduct(b) ==
    /\ b.id.k = "str" /\ WellFormedId(Trim(b.id.s))
    /\ TextWithin(b.category, MaxCategoryLen)
    /\ TextWithin(b.name, MaxNameLen)
    /\ TextWithin(b.code, MaxCodeLen)
    /\ b.description.k = "undef"
       \/ (b.description.k = "str" /\ Len(Trim(b.description.s)) <= MaxDescriptionLen)
    /\ NonNegative(b.quantity)
    /\ NonNegative(b.unit_price)

\* C9: a POST or PUT whose body fails validation, and a GET, PUT or DELETE
\* by id whose path id is not NNN-NN, is answered 400 before any statement
\* is issued, and the table is unchanged.
C9_InvalidRequestsRejected ==
    LET badBody == resp.op \in {"post", "put"} /\ ~ValidProduct(resp.body)
        badPath == resp.op \in {"get", "put", "delete"}
                   /\ ~WellFormedId(ToText(resp.pathId))
    IN  (badBody \/ badPath) =>
            /\ resp.status = 400
            /\ resp.db = 0
            /\ products = resp.before

C9_Witness ==
    /\ resp.op = "post"
    /\ resp.body.id = Str(<<"b", "a", "d">>)
    /\ resp.status = 400
    /\ resp.before # {}
    /\ products = resp.before

\* C10: a POST whose body satisfies the data model and whose id is not in
\* the table returns 201 with the id and inserts the row, also without
\* description, with quantity 0 and with unit_price 0.
C10_ValidPostCreates ==
    (/\ resp.op = "post"
     /\ ValidProduct(resp.body)
     /\ ~\E r \in resp.before : r.id = Trim(resp.body.id.s)) =>
        /\ resp.status = 201
        /\ resp.id = Trim(resp.body.id.s)
        /\ \E r \in products :
              /\ r.id = Trim(resp.body.id.s)
              /\ products = resp.before \cup {r}

\* The body is a Product of the data model: an id NNN-NN, category, name and
\* code non-empty text within their lengths, an optional description within
\* its length, quantity and unit_price numbers >= 0.
IsProduct(b) ==
    /\ b.id.k = "str" /\ WellFormedId(b.id.s)
    /\ b.category.k = "str" /\ Len(b.category.s) \in 1..MaxCategoryLen
    /\ b.name.k = "str" /\ Len(b.name.s) \in 1..MaxNameLen
    /\ b.code.k = "str" /\ Len(b.code.s) \in 1..MaxCodeLen
    /\ \/ b.description.k = "undef"
       \/ b.description.k = "str" /\ Len(b.description.s) <= MaxDescriptionLen
    /\ b.quantity.k = "num" /\ b.quantity.n >= 0
    /\ b.unit_price.k = "num" /\ b.unit_price.n >= 0

\* The Products posted with the id of the GET that resp answers, no request
\* having written the row since.
PostedAndFetched ==
    {p[2] : p \in {x \in posted : resp.op = "get" /\ x[1] = ToText(resp.pathId)
                                  /\ IsProduct(x[2])}}

\* C11 as claimed: a GET by id that follows a successful POST of a Product,
\* no request having written that id in between, returns a record equal to
\* the posted one on id, category, name, description, quantity, unit_price
\* and code.
C11_RoundTripEqual ==
    \A b \in PostedAndFetched :
        /\ resp.status = 200
        /\ \A r \in resp.rows :
              /\ resp.rows = {r}
              /\ r.id = b.id.s
              /\ r.category = b.category.s
              /\ r.name = b.name.s
              /\ r.description = (IF b.description.k = "undef" THEN Null
                                  ELSE b.description.s)
              /\ r.quantity = b.quantity.n
              /\ r.unit_price = b.unit_price.n
              /\ r.code = b.code.s
        /\ resp.rows # {}

\* C11 as amended: the record returned equals the posted one once the white
\* space at both ends of the posted category, name, description and code is
\* removed.
C11_RoundTripTrimmed ==
    \A b \in PostedAndFetched :
        /\ resp.status = 200
        /\ resp.rows # {}
        /\ \A r \in resp.rows :
              /\ resp.rows = {r}
              /\ r.id = b.id.s
              /\ r.category = Trim(b.category.s)
              /\ r.name = Trim(b.name.s)
              /\ r.description = (IF b.description.k = "undef" THEN Null
                                  ELSE Trim(b.description.s))
              /\ r.quantity = b.quantity.n
              /\ r.unit_price = b.unit_price.n
              /\ r.code = Trim(b.code.s)

C11_Witness ==
    /\ resp.op = "get" /\ resp.status = 200
    /\ \E b \in PostedAndFetched : b.category = Str(<<" ", "b", " ">>)
    /\ Cardinality(products) >= 2


\* The body carries valid values for category, name, description, quantity,
\* unit_price and code, and no id.
MutableFieldsOnly(b) ==
    /\ b.id.k = "undef"
    /\ ValidProduct([b EXCEPT !.id = Str(IdText(1))])

\* C12: a PUT on a well-formed id whose body carries valid values for the
\* mutable fields only returns 200 with the id when a row with that id
\* exists and 404 when none exists.
C12_PutMutableFields ==
    (/\ resp.op = "put"
     /\ WellFormedId(ToText(resp.pathId))
     /\ MutableFieldsOnly(resp.body)) =>
        IF \E r \in resp.before : r.id = ToText(resp.pathId)
        THEN resp.status = 200 /\ resp.id = ToText(resp.pathId)
        ELSE resp.status = 404


\* The step answers the request that resp answers once more: a PUT with the
\* same path and body directly after the first.
SamePutAgain ==
    /\ resp.op = "put" /\ resp'.op = "put"
    /\ resp'.pathId = resp.pathId /\ resp'.body = resp.body

\* C13: the identical PUT on an existing id with a valid body, issued twice
\* in a row, returns 200 both times and the second leaves the table, and so
\* every column of the row with its timestamps, as the first left it.
C13_PutTwiceSame ==
    [][(/\ SamePutAgain
        /\ ValidProduct(resp.body)
        /\ \E r \in resp.before : r.id = ToText(resp.pathId)) =>
           /\ resp.status = 200
           /\ resp'.status = 200
           /\ products' = products]_vars

\* A PUT answered 200 that found the row holding the values of its body
\* already, as the second of two identical PUTs does, later than the time of
\* the row's timestamps.
C13_Witness ==
    /\ resp.op = "put" /\ resp.status = 200
    /\ products = resp.before
    /\ ~\E p \in posted : p[1] = ToText(resp.pathId)
    /\ \E r \in products : r.id = ToText(resp.pathId) /\ r.updated_at < now


\* The values the statement of the PUT that resp answers binds, as stored.
BoundBy(b) ==
    [category |-> Trim(ToText(b.category)), name |-> Trim(ToText(b.name)),
     description |-> IF b.description.k = "undef" THEN Null
                     ELSE Trim(ToText(b.description)),
     quantity |-> ParseNumeral(ToText(b.quantity)).n,
     unit_price |-> ParseNumeral(ToText(b.unit_price)).n,
     code |-> Trim(ToText(b.code))]

\* C14: a successful PUT replaces category, name, description, quantity,
\* unit_price and code of the row named by the path id by the values of the
\* body and changes nothing else: the row keeps its id, whatever id the body
\* carries, and its created_at, the set of ids in the table is unchanged and
\* every other row is unchanged.
C14_PutFrame ==
    (resp.op = "put" /\ resp.status = 200) =>
        LET id == ToText(resp.pathId)
            v == BoundBy(resp.body)
        IN  /\ {r.id : r \in products} = {r.id : r \in resp.before}
            /\ Cardinality(products) = Cardinality(resp.before)
            /\ \A r \in resp.before : r.id # id => r \in products
            /\ \E old \in resp.before : \E new \in products :
                  /\ old.id = id /\ new.id = id
                  /\ new.created_at = old.created_at
                  /\ new.category = v.category /\ new.name = v.name
                  /\ new.description = v.description
                  /\ new.quantity = v.quantity /\ new.unit_price = v.unit_price
                  /\ new.code = v.code

\* A PUT whose body carries the id of another row changed the row of the path.
C14_Witness ==
    /\ resp.op = "put" /\ resp.status = 200
    /\ resp.body.id # resp.pathId
    /\ \E r \in products : r.id = ToText(resp.body.id)
    /\ products # resp.before
    /\ Cardinality(products) >= 2


\* C15: the row a successful POST inserts has created_at and updated_at
\* equal to the time of the insert; a successful PUT leaves created_at and
\* sets updated_at to the time of the update, not earlier than it was.
C15_Timestamps ==
    [][/\ (resp' # resp /\ resp'.op = "post" /\ resp'.status = 201) =>
              \E r \in products' :
                  /\ r.id = resp'.id
                  /\ r.created_at = now /\ r.updated_at = now
       /\ (resp' # resp /\ resp'.op = "put" /\ resp'.status = 200) =>
              \E old \in products : \E new \in products' :
                  /\ old.id = resp'.id /\ new.id = resp'.id
                  /\ new.created_at = old.created_at
                  /\ new.updated_at = now
                  /\ new.updated_at >= old.updated_at]_vars


\* resp answers a GET, a PUT with a valid body or a DELETE on a well-formed
\* id for which the table held no row.
NoRowForRequest ==
    /\ resp.op \in {"get", "put", "delete"}
    /\ WellFormedId(ToText(resp.pathId))
    /\ resp.op = "put" => ValidProduct(resp.body)
    /\ ~\E r \in resp.before : r.id = ToText(resp.pathId)

\* The request was answered 404 and left the table as it found it.
AnsweredNotFound == resp.status = 404 /\ products = resp.before

\* C16: GET, PUT with a valid body and DELETE on a well-formed id without a
\* row return 404 and leave the table unchanged, and the DELETE that directly
\* follows a DELETE of the same id, whatever that one returned, returns 404.
C16_NotFound ==
    [][/\ NoRowForRequest' => AnsweredNotFound'
       /\ (/\ resp.op = "delete" /\ resp'.op = "delete"
           /\ resp'.pathId = resp.pathId
           /\ WellFormedId(ToText(resp.pathId))) =>
              /\ resp'.status = 404
              /\ products' = products]_vars

\* A DELETE of a well-formed id answered 404 on a table that holds rows
\* of other ids.
C16_Witness ==
    /\ resp.op = "delete" /\ resp.status = 404
    /\ products = resp.before /\ products # {}
    /\ \E p \in posted : p[1] # ToText(resp.pathId)
    /\ WellFormedId(ToText(resp.pathId))


\* C17: in every table that POST, PUT and DELETE requests produce, the id
\* identifies the row and has the form NNN-NN, quantity and unit_price are
\* at least 0, and category, name and code are neither NULL nor empty.
C17_RowInvariants ==
    /\ \A r1, r2 \in products : r1.id = r2.id => r1 = r2
    /\ \A r \in products :
          /\ WellFormedId(r.id)
          /\ r.quantity >= 0 /\ r.unit_price >= 0
          /\ r.category # Null /\ r.category # <<>>
          /\ r.name # Null /\ r.name # <<>>
          /\ r.code # Null /\ r.code # <<>>

\* A table of two rows after a PUT has set a unit_price of 0.
C17_Witness ==
    /\ Cardinality(products) >= 2
    /\ \E r \in products : r.unit_price = 0


----------------------------------------------------------------------------
(* Properties of GET /api/statistics *)

\* One element for every unit of quantity, and of unit_price, of the rows:
\* the number of elements is the sum of the column.
QuantityUnits(S) == UNION {{<<r.id, k>> : k \in 1..r.quantity} : r \in S}
PriceUnits(S) == UNION {{<<r.id, k>> : k \in 1..r.unit_price} : r \in S}

\* The text is a numeral with two decimals, N.DD.
IsTwoDecimals(t) ==
    /\ Len(t) >= 4
    /\ t[Len(t) - 2] = "."
    /\ \A i \in 1..Len(t) : i # Len(t) - 2 => t[i] \in DigitChars

Hundredths(t) ==
    100 * DigitsValue(SubSeq(t, 1, Len(t) - 3)) + DigitsValue(SubSeq(t, Len(t) - 1, Len(t)))

\* The text renders the number num / den to two decimal places: no numeral
\* of two decimals is nearer to it.
Renders(t, num, den) ==
    /\ IsTwoDecimals(t)
    /\ LET d == 100 * num - Hundredths(t) * den
       IN  2 * (IF d < 0 THEN 0 - d ELSE d) <= den

ZeroText == <<"0", ".", "0", "0">>

Text_clothing == <<"c", "l", "o", "t", "h", "i", "n", "g">>
Text_Clothing == <<"C", "l", "o", "t", "h", "i", "n", "g">>

\* C18: on a table that no request writes, the statistics report the number
\* of rows, the sum of quantity, the minimum, maximum and mean unit_price to
\* two decimals, the number of distinct category strings and one breakdown
\* entry per exact category string with its count and its sum of quantity; on
\* the empty table the counts are 0, the prices "0.00" and the breakdown is
\* empty; on the seed data totalProducts is 10 and totalQuantity 1464, and
\* clothing and Clothing have an entry each.
C18_Statistics ==
    (stats.pc = "done" /\ stats.status = 200) =>
        LET b == stats.body
            cats == {r.category : r \in products}
            In(c) == {r \in products : r.category = c}
        IN  /\ b.totalProducts = Cardinality(products)
            /\ b.totalQuantity = Cardinality(QuantityUnits(products))
            /\ b.categoryCount = Cardinality(cats)
            /\ Cardinality(b.categoryBreakdown) = Cardinality(cats)
            /\ \A c \in cats : \E e \in b.categoryBreakdown :
                  /\ e.category = c
                  /\ e.count = Cardinality(In(c))
                  /\ e.totalQuantity = Cardinality(QuantityUnits(In(c)))
            /\ products # {} =>
                  /\ Renders(b.averagePrice, Cardinality(PriceUnits(products)),
                             Cardinality(products))
                  /\ \E lo, hi \in products :
                        /\ \A r \in products :
                              lo.unit_price <= r.unit_price /\ r.unit_price <= hi.unit_price
                        /\ b.minPrice = NumeralText(lo.unit_price) \o <<".", "0", "0">>
                        /\ b.maxPrice = NumeralText(hi.unit_price) \o <<".", "0", "0">>
            /\ products = {} =>
                  /\ b.totalProducts = 0 /\ b.totalQuantity = 0
                  /\ b.averagePrice = ZeroText /\ b.minPrice = ZeroText
                  /\ b.maxPrice = ZeroText
                  /\ b.categoryBreakdown = {}
            /\ products = SeedTable =>
                  /\ b.totalProducts = 10 /\ b.totalQuantity = 1464
                  /\ \E e1, e2 \in b.categoryBreakdown :
                        /\ e1.category = Text_clothing /\ e1.count = 3
                        /\ e2.category = Text_Clothing /\ e2.count = 2

C18_Witness ==
    /\ stats.pc = "done" /\ stats.status = 200
    /\ products = SeedTable
    /\ stats.body.totalQuantity = 1464


\* One element for every unit of field count, and of field totalQuantity, of
\* the breakdown entries.
CountUnits(entries) == UNION {{<<e.category, k>> : k \in 1..e.count} : e \in entries}
EntryQuantityUnits(entries) ==
    UNION {{<<e.category, k>> : k \in 1..e.totalQuantity} : e \in entries}

\* C19: every successful statistics response is self-consistent, also when
\* writes are processed while the request runs: the counts of the breakdown
\* add up to totalProducts, its quantities to totalQuantity, and it has
\* categoryCount entries.
C19_SelfConsistent ==
    (stats.pc = "done" /\ stats.status = 200) =>
        LET b == stats.body
        IN  /\ Cardinality(CountUnits(b.categoryBreakdown)) = b.totalProducts
            /\ Cardinality(EntryQuantityUnits(b.categoryBreakdown)) = b.totalQuantity
            /\ Cardinality(b.categoryBreakdown) = b.categoryCount


----------------------------------------------------------------------------
(* Properties of GET /api/products/export/csv *)

\* The text between double quotes, every double quote in it written twice.
QuotedField(t) ==
    <<"\"">>
    \o Join([i \in 1..Len(t) |-> IF t[i] = "\"" THEN <<"\"", "\"">> ELSE <<t[i]>>], <<>>)
    \o <<"\"">>

\* The line the export is to emit for a row.
ExpectedLine(r) ==
    r.id \o <<",">> \o QuotedField(r.category) \o <<",">> \o QuotedField(r.name)
    \o <<",">> \o QuotedField(IF r.description = Null THEN <<>> ELSE r.description)
    \o <<",">> \o NumeralText(r.quantity) \o <<",">> \o NumeralText(r.unit_price)
    \o <<",">> \o QuotedField(r.code)

\* The row at position k of the table in ascending order of id.
RowAt(k) ==
    CHOOSE r \in products : Cardinality({x \in products : TextLess(x.id, r.id)}) = k - 1

ExpectedHeader ==
    <<"I", "D", ",", "C", "a", "t", "e", "g", "o", "r", "y", ",", "N", "a", "m", "e", ",",
      "D", "e", "s", "c", "r", "i", "p", "t", "i", "o", "n", ",",
      "Q", "u", "a", "n", "t", "i", "t", "y", ",",
      "U", "n", "i", "t", " ", "P", "r", "i", "c", "e", ",", "C", "o", "d", "e">>

\* C20: the export is the header row followed by one line per row in id
\* order, in which category, name, description and code stand between double
\* quotes with every double quote inside them doubled.
C20_CsvQuoted ==
    csv.status = 200 =>
        csv.body = Join(<<ExpectedHeader>>
                        \o [k \in 1..Cardinality(products) |-> ExpectedLine(RowAt(k))],
                        <<"\n">>)


----------------------------------------------------------------------------
(* Storage failures in GET /api/products and GET /api/statistics *)

FaultQueries ==
    {NoQuery, [NoQuery EXCEPT !.category = Str(<<"b">>)],
     [NoQuery EXCEPT !.search = Str(<<"x">>), !.limit = Str(<<"1">>)],
     [NoQuery EXCEPT !.order = Arr(S_DESC)]}

\* One request at a time, every statement of it may fail.
NextFault ==
    \/ \E q \in FaultQueries : stats.pc = "idle" /\ ListStart(q)
    \/ \E e \in BOOLEAN : ListCount(e)
    \/ \E e \in BOOLEAN : ListPage(e)
    \/ ListEnd
    \/ list.pc = "idle" /\ StatsStart
    \/ \E i \in 1..NumStatements, e \in BOOLEAN : StatsQuery(i, e)
    \/ \E e \in BOOLEAN : StatsBreakdown(e)
    \/ StatsEnd

SpecFault == InitList /\ [][NextFault]_vars

ListOutcome(l) == <<l.sent, l.status, l.error, l.body, l.products, l.total>>
StatsOutcome(st) == <<st.sent, st.status, st.error, st.body>>

\* C21: in GET /api/products and GET /api/statistics a failing statement
\* gives exactly one response, a 500 with the fixed message of the route and
\* no data; the failed statement is not issued again and the statements that
\* settle later leave the response as it is.  When every statement succeeds,
\* exactly one response is sent, a 200 with the whole body.
C21_OneResponsePerRequest ==
    /\ [](/\ list.sent <= 1 /\ stats.sent <= 1
          /\ (list.pc = "done" /\ list.db > 0) =>
                /\ list.sent = 1
                /\ list.db <= 2
                /\ IF list.faults > 0
                   THEN /\ list.faults = 1
                        /\ list.status = 500
                        /\ list.error = "Failed to fetch products"
                        /\ list.body = JsonObject({"error"})
                        /\ list.products = <<>>
                   ELSE /\ list.db = 2
                        /\ list.status = 200
                        /\ list.body = JsonObject({"products", "pagination"})
                        /\ list.total = Cardinality(Matching(list.q))
                        /\ list.products \in
                              ExecSelect(list.query, list.pageParams, products)
          /\ stats.resolved \cap stats.rejected = {}
          /\ stats.pc \in {"queries", "breakdown"} => stats.sent = 0
          /\ stats.pc = "done" =>
                /\ stats.sent = 1
                /\ IF stats.rejected # {} \/ stats.breakdown = "failed"
                   THEN /\ stats.status = 500
                        /\ stats.error = "Failed to fetch statistics"
                        /\ stats.body = NoStatistics
                        /\ stats.rejected # {} => stats.breakdown = "none"
                   ELSE /\ stats.status = 200
                        /\ stats.resolved = 1..NumStatements
                        /\ stats.body.totalProducts = Cardinality(products)
                        /\ stats.body.categoryBreakdown = GroupByCategory(products))
    /\ [][/\ (list.pc = "done" /\ list'.pc = "done") =>
                ListOutcome(list') = ListOutcome(list)
          /\ (stats.pc = "done" /\ stats'.pc = "done") =>
                StatsOutcome(stats') = StatsOutcome(stats)]_vars

\* Two statistics statements failed and every statement has settled, some
\* of them after the 500 was sent.
C21_Witness ==
    /\ stats.pc = "done"
    /\ Cardinality(stats.rejected) = 2
    /\ stats.resolved \cup stats.rejected = 1..NumStatements
    /\ products # {}


----------------------------------------------------------------------------
(* The body of GET /api/products *)

\* C22: GET /api/products without a query, with a category or with a search
\* term is answered 200 with a body that is a JSON array of products.
C22_BodyIsArray ==
    (/\ list.pc = "done" /\ list.db = 2 /\ list.faults = 0
     /\ \E c \in {Undef, Str(<<"a", "b">>)}, t \in {Undef, Str(<<"x">>)} :
            list.q = [NoQuery EXCEPT !.category = c, !.search = t]) =>
        /\ list.status = 200
        /\ list.body.json = "array"


----------------------------------------------------------------------------
(* The rate limiters in front of the handlers *)

\* A request of client c under /api/: the limiters, then the handler of the
\* route or the 429 of the limiter.
Request(c, route) ==
    /\ resp = NoResp
    /\ limits' = Counted(c, route)
    /\ IF Passes(c, route)
       THEN \/ route = "post" /\ Post(GoodBody(IdText(1)), FALSE)
            \/ route = "put" /\ Put(Str(IdText(1)), GoodBody(IdText(1)), FALSE)
            \/ route = "delete" /\ Delete(Str(IdText(1)), FALSE)
            \/ route = "get" /\ GetById(Str(IdText(1)), FALSE)
       ELSE /\ resp' = Response("limited", Undef, NoBody, 429,
                                "Too many requests from this IP", <<>>, {}, 0,
                                products)
            /\ UNCHANGED <<products, now, list, stats, csv, posted, categories, posts, ui>>

\* The first client sends requests until one is refused and its windows end
\* at any time; the second client sends one request.
NextLimit ==
    \/ \E route \in ApiRoutes :
          /\ limits.hits["a"] <= LimiterMax
          /\ route \in WriteRoutes => limits.writeHits["a"] <= StrictMax
          /\ Request("a", route)
    \/ \E route \in ApiRoutes : limits.hits["b"] = 0 /\ Request("b", route)
    \/ RequestEnd
    \/ resp = NoResp /\ LimiterWindowEnds("a")
    \/ resp = NoResp /\ StrictWindowEnds("a")

SpecLimit == Init /\ [][NextLimit]_vars

\* The step is a request of client c for the route.
IsRequest(c) == limits'.hits[c] = limits.hits[c] + 1

\* C23: in one window of a limiter and for one client, at most 20 requests
\* to POST, PUT and DELETE /api/products and at most 100 requests under /api
\* are passed on to validation and storage; a request beyond is answered by
\* the limiter: no validation, no statement, the table as it was.
C23_LimitedPerClient ==
    /\ [](\A c \in Clients :
             /\ limits.admitted[c] <= LimiterMax
             /\ limits.admittedWrites[c] <= StrictMax)
    /\ [][\A c \in Clients :
             /\ (IsRequest(c) /\ limits.admitted[c] = LimiterMax) =>
                   /\ resp'.status = 429 /\ resp'.db = 0
                   /\ products' = products
             /\ (IsRequest(c) /\ limits.admittedWrites[c] = StrictMax) =>
                   /\ products' = products
                   /\ resp'.op \notin WriteRoutes
                   /\ resp'.db > 0 => resp'.op = "get"
             /\ (IsRequest(c) /\ resp'.status # 429) =>
                   /\ limits'.admitted[c] = limits.admitted[c] + 1
                   /\ resp'.op \in WriteRoutes =>
                         limits'.admittedWrites[c] = limits.admittedWrites[c] + 1]_vars

\* The first client has used up both windows and the second client has its
\* row created.
C23_Witness ==
    /\ limits.hits["a"] > LimiterMax
    /\ limits.writeHits["a"] > StrictMax
    /\ limits.admitted["a"] = LimiterMax
    /\ limits.admittedWrites["a"] = StrictMax
    /\ limits.admitted["b"] = 1
    /\ resp.status = 201


----------------------------------------------------------------------------
(* Properties of GET /api/categories *)

NextCategories ==
    \/ \E e \in BOOLEAN : Categories(e)
    \/ CategoriesEnd

\* Rows with categories that differ by case only and rows that share a
\* category.
CategoryRows ==
    {ListRows[i] : i \in 1..Len(ListRows)} \cup {BigRow(i) : i \in 6..8}

InitCategories ==
    /\ products \in SUBSET CategoryRows
    /\ now = 0
    /\ list = ListIdle
    /\ resp = NoResp
    /\ stats = StatsIdle
    /\ csv = NoCsv
    /\ posted = {}
    /\ limits = NoLimits
    /\ categories = NoCategories
    /\ posts = NoPosts
    /\ ui = UiIdle

SpecCategories == InitCategories /\ [][NextCategories]_vars

\* C24: GET /api/categories returns every category string of the table
\* once, strings that differ in case being different strings, in ascending
\* order, and no string that is not the category of a row.
C24_DistinctCategories ==
    categories.status = 200 =>
        LET body == categories.body
        IN  /\ \A c \in {r.category : r \in products} :
                  Cardinality({i \in 1..Len(body) : body[i] = c}) = 1
            /\ \A i \in 1..Len(body) : \E r \in products : r.category = body[i]
            /\ \A i, j \in 1..Len(body) : i < j => TextLess(body[i], body[j])

\* Two rows share a category and two categories differ by case only.
C24_Witness ==
    /\ categories.status = 200
    /\ \E r1, r2 \in products : r1 # r2 /\ r1.category = r2.category
    /\ \E r1, r2 \in products :
          /\ r1.category # r2.category
          /\ ToUpperCase(r1.category) = ToUpperCase(r2.category)
    /\ Len(categories.body) >= 3


----------------------------------------------------------------------------
(* The two statements of GET /api/products *)

\* C25: the count statement and the page statement have the same WHERE
\* clauses in the same order and are executed with the same filter values in
\* the same order; the page statement has the ORDER BY ... LIMIT ? OFFSET ?
\* suffix and its two trailing values in addition.
C25_SameWhere ==
    LET n == Len(list.countQuery)
    IN  /\ Built =>
              /\ list.countQuery[1] = CountBase
              /\ list.query[1] = SelectBase
              /\ Len(list.query) = n + 5
              /\ SubSeq(list.query, 2, n) = Tail(list.countQuery)
              /\ list.query[n + 1] = OrderByPiece
              /\ list.query[n + 5] = LimitOffsetPiece
              /\ \A i \in (n + 1)..(n + 5) : list.query[i] \notin KnownClauses
        /\ (Built /\ list.db >= 1) =>
              Len(list.countParams) = PlaceholderCount(Tail(list.countQuery))
        /\ (Built /\ list.db = 2) =>
              /\ Len(list.pageParams) = Len(list.countParams) + 2
              /\ SubSeq(list.pageParams, 1, Len(list.countParams)) = list.countParams
              /\ list.pageParams[Len(list.pageParams) - 1] = Num(list.limitNum)
              /\ list.pageParams[Len(list.pageParams)] = Num(list.offset)

\* Both statements were executed with the four filters.
C25_Witness ==
    /\ Answered
    /\ Len(list.countQuery) = 5
    /\ Len(list.countParams) = 6
    /\ list.countParams[1] # list.countParams[2]
    /\ list.total > 0


----------------------------------------------------------------------------
(* GET /api/products while other requests write *)

ListRaceQueries ==
    {NoQuery, [NoQuery EXCEPT !.category = Str(<<"b">>)],
     [NoQuery EXCEPT !.limit = Str(<<"1">>), !.page = Str(<<"2">>)]}

\* The statements of a listing and the statements of POST and DELETE
\* requests execute in any order.
NextListRace ==
    \/ \E q \in ListRaceQueries : ListStart(q)
    \/ ListCount(FALSE)
    \/ ListPage(FALSE)
    \/ ListEnd
    \/ \E b \in RaceBodies : resp = NoResp /\ Post(b, FALSE) /\ UNCHANGED limits
    \/ \E i \in 1..NumIds : resp = NoResp /\ Delete(Str(IdText(i)), FALSE) /\ UNCHANGED limits
    \/ RequestEnd

SpecListRace == InitList /\ [][NextListRace]_vars

\* C26: total is the number of matching rows when the count statement
\* executes, the page holds rows that match when the page statement
\* executes, and total is not taken again then: the two statements are two
\* steps, and a write that executes between them shows in the page and not
\* in total.
C26_CountThenPage ==
    [][/\ (list.pc = "count" /\ list'.pc = "page") =>
             /\ list'.total = Cardinality(Matching(list.q))
             /\ list'.products = <<>>
       /\ (list.pc = "page" /\ list'.pc = "done") =>
             /\ list'.total = list.total
             /\ Range(list'.products) \subseteq Matching(list.q)]_vars

\* The response holds more rows than its total: a row was inserted after the
\* count statement and before the page statement.
C26_Witness ==
    /\ Answered
    /\ Len(list.products) > list.total
    /\ list.total # Cardinality({r \in Range(list.products) : SatisfiesFilters(r, list.q)})


----------------------------------------------------------------------------
(* POST requests with the same new id *)

\* Bodies of one id that differ in a value, a body of another id and a body
\* that validation rejects.
SameIdBodies ==
    {GoodBody(IdText(1)),
     [GoodBody(IdText(1)) EXCEPT !.category = Str(<<"b">>)],
     [GoodBody(IdText(1)) EXCEPT !.quantity = Num(0)],
     GoodBody(IdText(2)),
     [GoodBody(IdText(1)) EXCEPT !.name = Undef]}

\* Every client sends one POST; the requests are in flight together and
\* their statements execute in any order.
NextPosts ==
    \/ \E c \in Clients, b \in SameIdBodies : PostStart(c, b)
    \/ \E c \in Clients : PostInsert(c, FALSE)

SpecPosts == Init /\ [][NextPosts]_vars

\* The requests for id whose INSERT statement was queued.
Inserting(id) ==
    {c \in Clients : posts[c].pc \in {"insert", "done"} /\ posts[c].status # 400
                     /\ posts[c].bound.id.s = id}

Created(id) == {c \in Inserting(id) : posts[c].status = 201}

HoldsValuesOf(r, b) ==
    /\ r.id = b.id.s /\ r.category = b.category.s /\ r.name = b.name.s
    /\ r.description = b.description.s /\ r.quantity = b.quantity.n
    /\ r.unit_price = b.unit_price.n /\ r.code = b.code.s

\* C27: of the POST requests in flight together with the same new id,
\* whatever the order of their steps, one is answered 201 and the table has
\* one row of the id, with the values of that request; every other one is
\* answered 500 and leaves the table as it was.
C27_OneCreated ==
    /\ [](\A n \in 1..NumIds :
            LET id == IdText(n)
                answered == {c \in Inserting(id) : posts[c].pc = "done"}
            IN  /\ Cardinality(Created(id)) <= 1
                /\ answered # {} => Cardinality(Created(id)) = 1
                /\ \A c \in answered \ Created(id) :
                      /\ posts[c].status = 500
                      /\ posts[c].error = "Failed to create product"
                /\ \A c \in Created(id) :
                      /\ Cardinality({r \in products : r.id = id}) = 1
                      /\ \A r \in products :
                            r.id = id => HoldsValuesOf(r, posts[c].body)
                /\ Created(id) = {} => ~\E r \in products : r.id = id)
    /\ [][\A c \in Clients :
            (posts[c].pc = "insert" /\ posts'[c].status = 500) =>
                products' = products]_vars

\* Three requests with the id and different values are answered, 201 the
\* one whose statement executed first.
C27_Witness ==
    /\ \A c \in Clients : posts[c].pc = "done" /\ posts[c].bound.id.s = IdText(1)
    /\ \A c1, c2 \in Clients : c1 # c2 => posts[c1].body # posts[c2].body
    /\ posts["c"].status = 201
    /\ posts["a"].status = 500 /\ posts["b"].status = 500


----------------------------------------------------------------------------
(* The search history of the page *)

NumTerms == 11
MaxShuffle == 3

\* Search terms, some with the characters JSON escapes or delimits with.
Term(i) ==
    CASE i = 1 -> <<"a", "\"", "b">>
      [] i = 2 -> <<"\\">>
      [] i = 3 -> <<"\"", ",", "\"">>
      [] i = 4 -> <<"]">>
      [] i = 5 -> <<"a", "\\", "\"">>
      [] i = 6 -> <<"[", "\"", "a", "\"", "]">>
      [] OTHER -> IdText(i)

\* The terms searched for: any of the first terms at any time, every other
\* term once, in the order of the terms.
NextHistory ==
    \/ \E i \in 1..MaxShuffle : addToSearchHistory(Term(i))
    \/ \E i \in (MaxShuffle + 1)..NumTerms :
          /\ \A j \in i..NumTerms, k \in 1..Len(ui.searchHistory) :
                ui.searchHistory[k] # Term(j)
          /\ i > MaxShuffle + 1 =>
                \E k \in 1..Len(ui.searchHistory) : ui.searchHistory[k] = Term(i - 1)
          /\ addToSearchHistory(Term(i))
    \/ clearSearchHistory
    \/ Reload

SpecHistory == Init /\ [][NextHistory]_vars

\* C28: from an empty history on, after any calls of addToSearchHistory and
\* clearSearchHistory the list has at most 10 entries and no term twice, the
\* term added last is its first entry, and the item in localStorage decodes
\* to the list in memory.
C28_HistoryInvariant ==
    /\ [](LET h == ui.searchHistory
          IN  /\ Len(h) <= 10
              /\ \A i, j \in 1..Len(h) : i # j => h[i] # h[j]
              /\ LoadedHistory(ui.storage) = h
              /\ ui.added # NoItem => (h # <<>> /\ h[1] = ui.added)
              /\ ui.added = NoItem => h = <<>>)
    /\ [][(ui'.added # NoItem /\ ui'.storage # ui.storage) =>
            LET old == ui.searchHistory
                new == ui'.searchHistory
                rest == [k \in 1..(Len(new) - 1) |-> new[k + 1]]
            IN  \* the entries after the first are the old ones without the
                \* term, in their order, cut after the ninth
                /\ \A k \in 1..Len(rest) : rest[k] # ui'.added
                /\ \A k, l \in 1..Len(rest) :
                      k < l => \E a, b \in 1..Len(old) :
                                  a < b /\ old[a] = rest[k] /\ old[b] = rest[l]
                /\ Len(new) = Min(10, 1 + Cardinality({k \in 1..Len(old) :
                                                        old[k] # ui'.added}))]_vars

\* The list is full, its oldest entry was dropped for a new term and a term
\* with a quote and one with a backslash are in it.
C28_Witness ==
    /\ Len(ui.searchHistory) = 10
    /\ ui.searchHistory[1] = Term(11)
    /\ \A k \in 1..10 : ui.searchHistory[k] # Term(1)
    /\ \E k \in 1..10 : ui.searchHistory[k] = Term(2)
    /\ \E k \in 1..10 : ui.searchHistory[k] = Term(3)
    /\ ui.storage # NoItem


----------------------------------------------------------------------------
(* The pagination buttons of the page *)

FilterInputs ==
    {<<c, lo, <<>>, sb>> : c \in {<<>>, <<"a", "b">>}, lo \in {<<>>, <<"1">>},
                          sb \in {S_id, S_code}}

SearchInputs == {<<"x">>, <<" ", "d">>}

\* The page and the server: one request of the page at a time.
NextUi ==
    \/ list.pc = "idle" /\ loadAllProducts(1, "none")
    \/ list.pc = "idle" /\ Previous
    \/ list.pc = "idle" /\ NextPage
    \/ \E f \in FilterInputs : list.pc = "idle" /\ applyFilters(f[1], f[2], f[3], f[4])
    \/ \E t \in SearchInputs : list.pc = "idle" /\ searchProduct(t)
    \/ ui.fetch # NoFetch /\ ListStart(ui.fetch.q)
    \/ ListCount(FALSE)
    \/ ListPage(FALSE)
    \/ Receive
    \/ ui.fetch = NoFetch /\ ListEnd

SpecUi == InitBig /\ [][NextUi]_vars

\* The requests give pages of the same result set: the same filters with
\* the same values, the same order, the same page size.
SameResultSet(q1, q2) ==
    /\ WhereClauses(q1) = WhereClauses(q2)
    /\ FilterParams(q1) = FilterParams(q2)
    /\ SortColumn(q1) = SortColumn(q2)
    /\ SortOrder(q1) = SortOrder(q2)
    /\ LimitNum(q1) = LimitNum(q2)

\* C29: when the list on display came from applyFilters or searchProduct,
\* the Previous and the Next button request the page before and the page
\* after the one on display, of the same filtered or searched result set.
C29_ButtonsKeepResultSet ==
    (ui.click # "none" /\ ui.view.source \in {"filter", "search"}) =>
        /\ SameResultSet(ui.fetch.q, ui.view.q)
        /\ PageNum(ui.fetch.q) =
              ui.view.page + (IF ui.click = "next" THEN 1 ELSE 0 - 1)

=============================================================================
